---- MODULE Spec2Model ----
(***************************************************************************)
(* Exam structuring pipeline of Riminister/exam_generator:                 *)
(*   - sub-question linking   (sub_question_detector.py)                   *)
(*   - difficulty scoring     (difficulty_calculator.py)                   *)
(*   - cleaning / dedup       (data_cleaner.py)                            *)
(*   - text extraction        (text_extractor.py)                          *)
(*   - batch extraction       (extract_text_from_pdfs.py) and parsing      *)
(*   - type detection         (question_type_detector.py)                  *)
(*   - OCR context selection  (ocr_context_selector.py)                    *)
(*   - cover page parsing     (cover_page_parser.py)                       *)
(*   - segmentation           (parse_questions_from_text.py)               *)
(*   - corpus file stages     (the four *_in_data entry points)            *)
(*   - per-question marks     (difficulty_calculator.py)                   *)
(*   - cover page dates       (cover_page_parser.py)                       *)
(*   - repeated batch runs    (extract_text_from_pdfs.py)                  *)
(* Each component has its own specification over its own variables; the    *)
(* variables of the other components stay at their idle value.             *)
(*                                                                         *)
(* Texts are sequences of one-character strings.  An optional number       *)
(* (Python None or a number) is <<>> or <<n>>.                             *)
(***************************************************************************)
EXTENDS Integers, Sequences, FiniteSets, TLC

VARIABLES
    questions,   \* sub-question stage: the exam's question list in exam_analysis.json
    passes,      \* sub-question stage: number of detect_sub_questions passes run on it
    dq,          \* difficulty stage: the exam's question list (text carries the marks)
    exam_data,   \* difficulty stage: exam metadata (total_marks_from_cover)
    dstats,      \* difficulty stage: stats returned by process_exam_questions
    dphase,      \* difficulty stage: "segmented" | "parsed" | "scored"
    cq,          \* cleaner: the current question list
    cin,         \* cleaner: the list the last remove_duplicates call was given
    cprev,       \* cleaner: the list the last clean_dataset call was given
    cstats,      \* cleaner: cleaning_stats of the ExamDataCleaner instance
    cphase,      \* cleaner: "raw" | "deduped" | "cleaned"
    ccalls,      \* cleaner: clean_dataset calls made on the instance
    pc,          \* extractor: position inside extract_text_from_pdf
    env,         \* extractor: the document and the installed libraries
    result,      \* extractor: the result dict
    attempts,    \* extractor: the methods whose library was actually invoked, in order
    ocr_language, \* extractor: the ocr_language local of extract_text_from_pdf
    bpc,         \* batch: position in extract_all_exams / parse_extracted_text_to_questions
    benv,        \* batch: the use_ocr argument and the installed libraries
    pdf_files,   \* batch: the documents found in the to-process folder
    bnext,       \* batch: index of the next item of the running for-loop
    results,     \* batch: the results dict written to extracted_text.json
    analysis,    \* batch: the results dict written to exam_analysis.json
    ttext,       \* type detector: the text argument of detect_question_type
    tlength,     \* type detector: the length argument
    tlabel,      \* type detector: the label returned
    opc,         \* OCR context: "called" | "returned"
    ocode,       \* OCR context: the course_code argument of detect_exam_type
    opage,       \* OCR context: the first_page_text argument
    oconfig,     \* OCR context: the config returned
    cvpc,        \* cover page: "called" | "returned"
    cvtext,      \* cover page: the text argument of extract_total_marks
    cvmarks,     \* cover page: the total returned
    spc,         \* question parser: "called" | "returned"
    stext,       \* question parser: the text argument of extract_questions_from_text
    squestions,  \* question parser: the question list returned
    kpc,         \* corpus stages: "loaded" | "done"
    kdata,       \* corpus stages: the content of exam_analysis.json read by the stage
    kstage,      \* corpus stages: the stage that ran
    kreturn,     \* corpus stages: what the stage returned
    kfile,       \* corpus stages: the data the stage wrote back, <<>> when it wrote nothing
    kcleaned,    \* corpus stages: the list written to cleaned_questions.json
    mpc,         \* marks: "called" | "returned"
    mtext,       \* marks: the question_text argument of extract_question_marks
    mmarks,      \* marks: the marks returned
    dtpc,        \* cover date: "called" | "returned" | "raised"
    dttext,      \* cover date: the text argument of extract_date
    dtdate,      \* cover date: <<year, month, day>> of the record returned, <<>> for None
    rpc,         \* runs: "ready" between runs | "extracting" inside the for-loop
    renv,        \* runs: the use_ocr argument and the installed libraries
    rdocs,       \* runs: the PDF behind each file name
    to_process,  \* runs: the file names in the to-process folder
    processed,   \* runs: the file names in the processed folder
    output_file, \* runs: the extractions list in the output file, <<>> while it does not exist
    rfiles,      \* runs: pdf_files of the running call
    rnext,       \* runs: index of the next item of the for-loop
    rresults,    \* runs: results of the running call
    rruns        \* runs: extract_all_exams calls made so far

vars == <<questions, passes, dq, exam_data, dstats, dphase, cq, cin, cprev,
          cstats, cphase, ccalls, pc, env, result, attempts, ocr_language,
          bpc, benv, pdf_files, bnext, results, analysis, ttext, tlength,
          tlabel, opc, ocode, opage, oconfig, cvpc, cvtext, cvmarks, spc,
          stext, squestions, kpc, kdata, kstage, kreturn, kfile, kcleaned,
          mpc, mtext, mmarks, dtpc, dttext, dtdate, rpc, renv, rdocs,
          to_process, processed, output_file, rfiles, rnext, rresults, rruns>>

subVars == <<questions, passes>>
diffVars == <<dq, exam_data, dstats, dphase>>
cleanVars == <<cq, cin, cprev, cstats, cphase, ccalls>>
extVars == <<pc, env, result, attempts, ocr_language>>
batchVars == <<bpc, benv, pdf_files, bnext, results, analysis>>
typeVars == <<ttext, tlength, tlabel>>
ocrVars == <<opc, ocode, opage, oconfig>>
coverVars == <<cvpc, cvtext, cvmarks>>
segVars == <<spc, stext, squestions>>
corpusVars == <<kpc, kdata, kstage, kreturn, kfile, kcleaned>>
marksVars == <<mpc, mtext, mmarks>>
dateVars == <<dtpc, dttext, dtdate>>
runsVars == <<rpc, renv, rdocs, to_process, processed, output_file, rfiles, rnext, rresults, rruns>>

\* the variables each component leaves alone
notSubVars == <<diffVars, cleanVars, extVars, batchVars, typeVars, ocrVars, coverVars, segVars, corpusVars, marksVars, dateVars, runsVars>>
notDiffVars == <<subVars, cleanVars, extVars, batchVars, typeVars, ocrVars, coverVars, segVars, corpusVars, marksVars, dateVars, runsVars>>
notCleanVars == <<subVars, diffVars, extVars, batchVars, typeVars, ocrVars, coverVars, segVars, corpusVars, marksVars, dateVars, runsVars>>
notExtVars == <<subVars, diffVars, cleanVars, batchVars, typeVars, ocrVars, coverVars, segVars, corpusVars, marksVars, dateVars, runsVars>>
notBatchVars == <<subVars, diffVars, cleanVars, extVars, typeVars, ocrVars, coverVars, segVars, corpusVars, marksVars, dateVars, runsVars>>
notTypeVars == <<subVars, diffVars, cleanVars, extVars, batchVars, ocrVars, coverVars, segVars, corpusVars, marksVars, dateVars, runsVars>>
notOcrVars == <<subVars, diffVars, cleanVars, extVars, batchVars, typeVars, coverVars, segVars, corpusVars, marksVars, dateVars, runsVars>>
notCoverVars == <<subVars, diffVars, cleanVars, extVars, batchVars, typeVars, ocrVars, segVars, corpusVars, marksVars, dateVars, runsVars>>
notSegVars == <<subVars, diffVars, cleanVars, extVars, batchVars, typeVars, ocrVars, coverVars, corpusVars, marksVars, dateVars, runsVars>>
notCorpusVars == <<subVars, diffVars, cleanVars, extVars, batchVars, typeVars, ocrVars, coverVars, segVars, marksVars, dateVars, runsVars>>
notMarksVars == <<subVars, diffVars, cleanVars, extVars, batchVars, typeVars, ocrVars, coverVars, segVars, corpusVars, dateVars, runsVars>>
notDateVars == <<subVars, diffVars, cleanVars, extVars, batchVars, typeVars, ocrVars, coverVars, segVars, corpusVars, marksVars, runsVars>>
notRunsVars == <<subVars, diffVars, cleanVars, extVars, batchVars, typeVars, ocrVars, coverVars, segVars, corpusVars, marksVars, dateVars>>

\* Python None for an optional number, and Some(n)
NoneNum == <<>>
Some(n) == <<n>>
\* Python None for an optional string
NoneStr == "None"

(***************************************************************************)
(* Bounds                                                                  *)
(***************************************************************************)
MaxUnits == 4      \* units of one document in the sub-question stage
MaxPara == 5       \* paragraph indices available to the paragraph split
MaxPasses == 2     \* detect_sub_questions passes over the same file

(***************************************************************************)
(* Characters and regular-expression helpers                               *)
(***************************************************************************)
Digits == {"0", "1", "2", "3", "4", "5", "6", "7", "8", "9"}
LowerLetters ==
    {"a", "b", "c", "d", "e", "f", "g", "h", "i", "j", "k", "l", "m",
     "n", "o", "p", "q", "r", "s", "t", "u", "v", "w", "x", "y", "z"}
UpperLetters ==
    {"A", "B", "C", "D", "E", "F", "G", "H", "I", "J", "K", "L", "M",
     "N", "O", "P", "Q", "R", "S", "T", "U", "V", "W", "X", "Y", "Z"}
Alpha == LowerLetters \cup UpperLetters
RomanLower == {"i", "v", "x"}
RomanUpper == {"I", "V", "X"}
Space == {" ", "\n", "\t"}

\* str.lower() on one character
LowerChar(c) ==
    CASE c = "A" -> "a" [] c = "B" -> "b" [] c = "C" -> "c" [] c = "D" -> "d"
      [] c = "E" -> "e" [] c = "F" -> "f" [] c = "G" -> "g" [] c = "H" -> "h"
      [] c = "I" -> "i" [] c = "J" -> "j" [] c = "K" -> "k" [] c = "L" -> "l"
      [] c = "M" -> "m" [] c = "N" -> "n" [] c = "O" -> "o" [] c = "P" -> "p"
      [] c = "Q" -> "q" [] c = "R" -> "r" [] c = "S" -> "s" [] c = "T" -> "t"
      [] c = "U" -> "u" [] c = "V" -> "v" [] c = "W" -> "w" [] c = "X" -> "x"
      [] c = "Y" -> "y" [] c = "Z" -> "z"
      [] OTHER -> c

\* str.lower()
RECURSIVE Lower(_)
Lower(s) == IF s = <<>> THEN <<>> ELSE <<LowerChar(Head(s))>> \o Lower(Tail(s))

\* the character at position i, "" past the end
At(s, i) == IF i >= 1 /\ i <= Len(s) THEN s[i] ELSE ""

\* the literal lit occurs in s at position i
LitAt(s, i, lit) ==
    i >= 1 /\ i + Len(lit) - 1 <= Len(s) /\ SubSeq(s, i, i + Len(lit) - 1) = lit

MaxOf(S) == CHOOSE x \in S : \A y \in S : y <= x
MinOf(S) == CHOOSE x \in S : \A y \in S : x <= y

\* length of the maximal run of characters of Cls starting at position i
RECURSIVE Run(_, _, _)
Run(s, i, Cls) == IF i <= Len(s) /\ s[i] \in Cls THEN 1 + Run(s, i + 1, Cls) ELSE 0

RECURSIVE LStrip(_)
LStrip(s) == IF s # <<>> /\ Head(s) \in Space THEN LStrip(Tail(s)) ELSE s

RECURSIVE RStrip(_)
RStrip(s) == IF s # <<>> /\ s[Len(s)] \in Space THEN RStrip(SubSeq(s, 1, Len(s) - 1)) ELSE s

\* str.strip()
Strip(s) == RStrip(LStrip(s))

\* s starts with the literal lit, ignoring case
StartsWithI(s, lit) == Len(s) >= Len(lit) /\ Lower(SubSeq(s, 1, Len(lit))) = Lower(lit)

DigitVal(c) ==
    CASE c = "0" -> 0 [] c = "1" -> 1 [] c = "2" -> 2 [] c = "3" -> 3 [] c = "4" -> 4
      [] c = "5" -> 5 [] c = "6" -> 6 [] c = "7" -> 7 [] c = "8" -> 8 [] c = "9" -> 9

\* int() of a digit string
RECURSIVE IntOf(_)
IntOf(ds) == IF ds = <<>> THEN 0 ELSE 10 * IntOf(SubSeq(ds, 1, Len(ds) - 1)) + DigitVal(ds[Len(ds)])

(***************************************************************************)
(* Sub-question detector                                                   *)
(***************************************************************************)
\* SubQuestionDetector.main_question_patterns, matched with re.IGNORECASE
MainPatternMatches(t) ==
    LET d == Run(t, 1, Digits)
        sp == Run(t, 9, Space)
        qd == Run(t, 2, Digits)
    IN  \/ d >= 1 /\ At(t, d + 1) = "." /\ At(t, d + 2) \in Space       \* ^\d+\.\s
        \/ d >= 1 /\ At(t, d + 1) = "."                                 \* ^\d+\.
        \/ /\ StartsWithI(t, <<"Q", "u", "e", "s", "t", "i", "o", "n">>) \* ^Question\s+\d+
           /\ sp >= 1 /\ At(t, 9 + sp) \in Digits
        \/ LowerChar(At(t, 1)) = "q" /\ qd >= 1 /\ At(t, 2 + qd) = "."  \* ^Q\d+\.
        \/ d >= 1 /\ At(t, d + 1) = ")" /\ At(t, d + 2) \in Space       \* ^\d+\)\s
        \/ d >= 1 /\ At(t, d + 1) \in Space                             \* ^\d+\s

\* SubQuestionDetector.sub_question_patterns, matched with re.IGNORECASE
SubPatternMatches(t) ==
    LET r1 == Run(t, 1, RomanLower \cup RomanUpper)
        r2 == Run(t, 2, RomanLower \cup RomanUpper)
    IN  \/ At(t, 1) \in Alpha /\ At(t, 2) = ")" /\ At(t, 3) \in Space   \* ^[a-z]\)\s
        \/ At(t, 1) \in Alpha /\ At(t, 2) = ")"                         \* ^[a-z]\)
        \/ At(t, 1) = "(" /\ At(t, 2) \in Alpha /\ At(t, 3) = ")" /\ At(t, 4) \in Space
        \/ At(t, 1) = "(" /\ At(t, 2) \in Alpha /\ At(t, 3) = ")"       \* ^\([a-z]\)
        \/ At(t, 1) \in Alpha /\ At(t, 2) = "." /\ At(t, 3) \in Space   \* ^[a-z]\.\s
        \/ At(t, 1) \in Alpha /\ At(t, 2) = "."                         \* ^[a-z]\.
        \/ r1 >= 1 /\ At(t, r1 + 1) = "." /\ At(t, r1 + 2) \in Space    \* ^[ivx]+\.\s
        \/ r1 >= 1 /\ At(t, r1 + 1) = "."                               \* ^[ivx]+\.
        \/ At(t, 1) = "(" /\ r2 >= 1 /\ At(t, 2 + r2) = ")" /\ At(t, 3 + r2) \in Space
        \/ At(t, 1) = "(" /\ r2 >= 1 /\ At(t, 2 + r2) = ")"             \* ^\([ivx]+\)

is_main_question(text) == text # <<>> /\ MainPatternMatches(Strip(text))

is_sub_question_marker(text) == text # <<>> /\ SubPatternMatches(Strip(text))

\* `if i > 0` (0-based i; positions here are 1-based)
HasPreviousNoGuard(i) == TRUE
HasPrevious(i) == i > 1

\* questions[i-1] with Python indexing: index -1 is the last element
PrevQuestion(qs, i) == qs[IF i = 1 THEN Len(qs) ELSE i - 1]

\* parent of a unit that follows a main question
MainParentOwn(question, prev_question) == question.question_number
MainParent(question, prev_question) == prev_question.question_number

\* parent of a unit that follows a sub-question
InheritedParent(prev_question) ==
    IF prev_question.parent_question_number # NoneNum
        THEN prev_question.parent_question_number
        ELSE Some(prev_question.question_number)

MarkSub(question, parent) ==
    [question EXCEPT !.question_type = "sub_question",
                     !.is_sub_question = TRUE,
                     !.parent_question_number = parent]

\* body of the loop of detect_sub_questions for the unit at position i;
\* the previous unit is read from the input list, not from updated_questions
DetectOne(qs, i) ==
    LET question == qs[i] IN
    IF is_sub_question_marker(question.text) /\ HasPrevious(i)
    THEN LET prev_question == PrevQuestion(qs, i) IN
         IF is_main_question(prev_question.text)
         THEN MarkSub(question, Some(MainParent(question, prev_question)))
         ELSE IF prev_question.question_type = "sub_question" \/ prev_question.is_sub_question
              THEN MarkSub(question, InheritedParent(prev_question))
              ELSE question
    ELSE question

detect_sub_questions(qs) == [i \in 1..Len(qs) |-> DetectOne(qs, i)]

(***************************************************************************)
(* Segmentation output that feeds the sub-question stage                   *)
(***************************************************************************)
\* QuestionParser._roman_to_int
RomanVal(c) == CASE c = "I" -> 1 [] c = "V" -> 5 [] c = "X" -> 10 [] OTHER -> 0

RECURSIVE RomanFold(_, _)
RomanFold(roman, prev_value) ==
    IF roman = <<>> THEN 0
    ELSE LET value == RomanVal(roman[Len(roman)])
             rest == RomanFold(SubSeq(roman, 1, Len(roman) - 1), value)
         IN IF value < prev_value THEN rest - value ELSE rest + value

roman_to_int(roman) == RomanFold(roman, 0)

\* "Convert to question objects": q_num = split['number'] or question_num
RECURSIVE ToQuestions(_, _)
ToQuestions(splits, question_num) ==
    IF splits = <<>> THEN <<>>
    ELSE LET split == Head(splits)
             q_num == IF split.number # NoneNum /\ split.number # Some(0)
                         THEN split.number[1] ELSE question_num
         IN <<[question_number |-> q_num,
               text |-> split.text,
               question_type |-> "other",
               is_sub_question |-> FALSE,
               parent_question_number |-> NoneNum]>>
            \o ToQuestions(Tail(splits), q_num + 1)

Body == <<"w">>

\* spans cut at '^(\d+)\.\s+' markers; number = int(match.group(1))
NumberedSpans == { <<"1", ".", " ">> \o Body, <<"2", ".", " ">> \o Body }
NumberedSplit(t) == [text |-> t, number |-> Some(IntOf(SubSeq(t, 1, Run(t, 1, Digits))))]

\* spans cut at '^([IVX]+)\.\s+' markers; number = _roman_to_int(match.group(1))
RomanSpans == { <<"I", ".", " ">> \o Body, <<"I", "V", ".", " ">> \o Body }
RomanSplit(t) == [text |-> t, number |-> Some(roman_to_int(SubSeq(t, 1, Run(t, 1, RomanUpper))))]

\* paragraphs kept by the fallback split; number = paragraph index + 1
Paragraphs == { <<"1", ")", " ">> \o Body,
                <<"Q", "2", ".">> \o Body,
                <<"a", ")", " ">> \o Body,
                <<"(", "b", ")">> \o Body,
                <<"i", "i", ".", " ">> \o Body,
                Body \o <<"?">> }

\* the k-th smallest element of a set of numbers
RECURSIVE KthSmallest(_, _)
KthSmallest(S, k) ==
    LET m == CHOOSE x \in S : \A y \in S : x <= y
    IN IF k = 1 THEN m ELSE KthSmallest(S \ {m}, k - 1)

\* the paragraph split: the kept paragraphs' texts ts, their indices + 1 in idx
ParagraphSplits(ts, idx) ==
    [i \in 1..Len(ts) |-> [text |-> ts[i], number |-> Some(KthSmallest(idx, i))]]

\* the question lists extract_questions_from_text can return for n units:
\* numbered split, Roman-numeral split, or paragraph split
SegmentedAs(qs, n) ==
    \/ \E ts \in [1..n -> NumberedSpans] :
          qs = ToQuestions([i \in 1..n |-> NumberedSplit(ts[i])], 1)
    \/ \E ts \in [1..n -> RomanSpans] :
          qs = ToQuestions([i \in 1..n |-> RomanSplit(ts[i])], 1)
    \/ \E ts \in [1..n -> Paragraphs] :
          \E idx \in {S \in SUBSET (1..MaxPara) : Cardinality(S) = n} :
              qs = ToQuestions(ParagraphSplits(ts, idx), 1)

IdleDiff == dq = <<>> /\ exam_data = NoneNum /\ dstats = NoneStr /\ dphase = "idle"
IdleClean ==
    /\ cq = <<>> /\ cin = <<>> /\ cprev = <<>>
    /\ cstats = NoneStr /\ cphase = "idle" /\ ccalls = 0
IdleExt ==
    pc = "idle" /\ env = NoneStr /\ result = NoneStr /\ attempts = <<>> /\ ocr_language = NoneStr
IdleSub == questions = <<>> /\ passes = 0
IdleBatch ==
    /\ bpc = "idle" /\ benv = NoneStr /\ pdf_files = <<>>
    /\ bnext = 0 /\ results = NoneStr /\ analysis = NoneStr

IdleType == ttext = <<>> /\ tlength = NoneNum /\ tlabel = NoneStr

IdleOcr == opc = "idle" /\ ocode = NoneStr /\ opage = NoneStr /\ oconfig = NoneStr

IdleCover == cvpc = "idle" /\ cvtext = NoneStr /\ cvmarks = NoneNum

IdleSeg == spc = "idle" /\ stext = NoneStr /\ squestions = <<>>

IdleCorpus == kpc = "idle" /\ kdata = NoneStr /\ kstage = NoneStr /\ kreturn = NoneStr /\ kfile = <<>> /\ kcleaned = <<>>

IdleMarks == mpc = "idle" /\ mtext = <<>> /\ mmarks = NoneNum

IdleDate == dtpc = "idle" /\ dttext = <<>> /\ dtdate = <<>>

IdleRuns == rpc = "idle" /\ renv = NoneStr /\ rdocs = <<>> /\ to_process = {} /\ processed = {} /\ output_file = <<>> /\ rfiles = <<>> /\ rnext = 0 /\ rresults = <<>> /\ rruns = 0

\* the other components at rest
IdleNotSub ==
    IdleDiff /\ IdleClean /\ IdleExt /\ IdleBatch /\ IdleType /\ IdleOcr /\ IdleCover /\ IdleSeg /\ IdleCorpus /\ IdleMarks /\ IdleDate /\ IdleRuns
IdleNotDiff ==
    IdleSub /\ IdleClean /\ IdleExt /\ IdleBatch /\ IdleType /\ IdleOcr /\ IdleCover /\ IdleSeg /\ IdleCorpus /\ IdleMarks /\ IdleDate /\ IdleRuns
IdleNotClean ==
    IdleSub /\ IdleDiff /\ IdleExt /\ IdleBatch /\ IdleType /\ IdleOcr /\ IdleCover /\ IdleSeg /\ IdleCorpus /\ IdleMarks /\ IdleDate /\ IdleRuns
IdleNotExt ==
    IdleSub /\ IdleDiff /\ IdleClean /\ IdleBatch /\ IdleType /\ IdleOcr /\ IdleCover /\ IdleSeg /\ IdleCorpus /\ IdleMarks /\ IdleDate /\ IdleRuns
IdleNotBatch ==
    IdleSub /\ IdleDiff /\ IdleClean /\ IdleExt /\ IdleType /\ IdleOcr /\ IdleCover /\ IdleSeg /\ IdleCorpus /\ IdleMarks /\ IdleDate /\ IdleRuns
IdleNotType ==
    IdleSub /\ IdleDiff /\ IdleClean /\ IdleExt /\ IdleBatch /\ IdleOcr /\ IdleCover /\ IdleSeg /\ IdleCorpus /\ IdleMarks /\ IdleDate /\ IdleRuns
IdleNotOcr ==
    IdleSub /\ IdleDiff /\ IdleClean /\ IdleExt /\ IdleBatch /\ IdleType /\ IdleCover /\ IdleSeg /\ IdleCorpus /\ IdleMarks /\ IdleDate /\ IdleRuns
IdleNotCover ==
    IdleSub /\ IdleDiff /\ IdleClean /\ IdleExt /\ IdleBatch /\ IdleType /\ IdleOcr /\ IdleSeg /\ IdleCorpus /\ IdleMarks /\ IdleDate /\ IdleRuns
IdleNotSeg ==
    IdleSub /\ IdleDiff /\ IdleClean /\ IdleExt /\ IdleBatch /\ IdleType /\ IdleOcr /\ IdleCover /\ IdleCorpus /\ IdleMarks /\ IdleDate /\ IdleRuns
IdleNotCorpus ==
    IdleSub /\ IdleDiff /\ IdleClean /\ IdleExt /\ IdleBatch /\ IdleType /\ IdleOcr /\ IdleCover /\ IdleSeg /\ IdleMarks /\ IdleDate /\ IdleRuns
IdleNotMarks ==
    IdleSub /\ IdleDiff /\ IdleClean /\ IdleExt /\ IdleBatch /\ IdleType /\ IdleOcr /\ IdleCover /\ IdleSeg /\ IdleCorpus /\ IdleDate /\ IdleRuns
IdleNotDate ==
    IdleSub /\ IdleDiff /\ IdleClean /\ IdleExt /\ IdleBatch /\ IdleType /\ IdleOcr /\ IdleCover /\ IdleSeg /\ IdleCorpus /\ IdleMarks /\ IdleRuns
IdleNotRuns ==
    IdleSub /\ IdleDiff /\ IdleClean /\ IdleExt /\ IdleBatch /\ IdleType /\ IdleOcr /\ IdleCover /\ IdleSeg /\ IdleCorpus /\ IdleMarks /\ IdleDate

InitSub ==
    /\ \E n \in 1..MaxUnits : SegmentedAs(questions, n)
    /\ passes = 0
    /\ IdleNotSub

\* detect_sub_questions_in_data: one pass over the exam, saved back to the same file
DetectSubQuestionsPass ==
    /\ passes < MaxPasses
    /\ questions' = detect_sub_questions(questions)
    /\ passes' = passes + 1
    /\ UNCHANGED notSubVars

NextSub == DetectSubQuestionsPass

SpecSub == InitSub /\ [][NextSub]_vars

\* C1: every unit flagged is_sub_question has a non-null parent_question_number
\* that is the question_number of a unit at a strictly earlier position.
C1_SubHasEarlierParent ==
    \A i \in 1..Len(questions) :
        questions[i].is_sub_question =>
            /\ questions[i].parent_question_number # NoneNum
            /\ \E j \in 1..(i - 1) :
                  Some(questions[j].question_number) = questions[i].parent_question_number

C1_Witness ==
    /\ passes = MaxPasses
    /\ \E i \in 1..Len(questions) :
          /\ questions[i].is_sub_question
          /\ ~is_main_question(questions[i - 1].text)
          /\ questions[i].question_number # questions[i - 1].question_number

\* C2: after one pass over a freshly segmented list, a unit that begins with a
\* sub-marker and whose preceding unit was marked in that pass is itself a
\* sub-question with the same parent.
C2_OnePassPropagates ==
    passes = 1 =>
        \A i \in 2..Len(questions) :
            (is_sub_question_marker(questions[i].text) /\ questions[i - 1].is_sub_question)
                => /\ questions[i].is_sub_question
                   /\ questions[i].parent_question_number = questions[i - 1].parent_question_number

\* C3: the unit at position 0 is never a sub-question, even when its text
\* begins with a sub-question marker.
C3_FirstNeverSub ==
    questions # <<>> => ~questions[1].is_sub_question

C3_Witness ==
    /\ passes >= 1
    /\ Len(questions) >= 2
    /\ is_sub_question_marker(questions[1].text)
    /\ is_main_question(questions[Len(questions)].text)
    /\ \E i \in 1..Len(questions) : questions[i].is_sub_question

(***************************************************************************)
(* Difficulty scorer                                                       *)
(***************************************************************************)
MaxDQ == 3         \* questions of one exam in the difficulty stage

\* (?:pts?|points?|marks?) with re.IGNORECASE
UnitWords ==
    {<<"p", "t">>, <<"p", "t", "s">>, <<"p", "o", "i", "n", "t">>, <<"p", "o", "i", "n", "t", "s">>,
     <<"m", "a", "r", "k">>, <<"m", "a", "r", "k", "s">>}

\* the positions at which a match of the unit alternation starting at p can end
UnitEnds(s, p) == {p + Len(w) : w \in {u \in UnitWords : LitAt(s, p, u)}}

\* a digit run of length n at i followed by blanks:
\* <<first digit, last digit, position after the blanks>>
NumberSpan(s, i, n) ==
    IF n >= 1 THEN <<i, i + n - 1, i + n + Run(s, i + n, Space)>> ELSE <<>>

\* `(\d+)\s*` at i, <<>> when no digit stands at i
NumberAt(s, i) == NumberSpan(s, i, Run(s, i, Digits))

\* `worth\s+(\d+)\s*(?:pts?|points?|marks?)` at i: w blanks after the word,
\* then the number n6
WorthMarksAt(s, i, w, n6) ==
    IF LitAt(s, i, <<"w", "o", "r", "t", "h">>) /\ w >= 1 /\ n6 # <<>> /\ UnitEnds(s, n6[3]) # {}
    THEN n6 ELSE <<>>

\* DifficultyCalculator.mark_patterns at position i of the lower-cased text,
\* num the number at i and inner the number at i + 1: the number whose digits
\* are the group (\d+), <<>> when the pattern does not match at i
PatternMatchAt(pattern, s, i, num, inner) ==
    CASE pattern = 1 ->
            IF At(s, i) = "(" /\ inner # <<>> /\ \E e \in UnitEnds(s, inner[3]) : At(s, e) = ")"
            THEN inner ELSE <<>>
      [] pattern = 2 ->
            IF At(s, i) = "[" /\ inner # <<>> /\ \E e \in UnitEnds(s, inner[3]) : At(s, e) = "]"
            THEN inner ELSE <<>>
      [] pattern = 3 ->
            IF num # <<>> /\ \E e \in UnitEnds(s, num[3]) : At(s, e + Run(s, e, Space)) \in {".", ")"}
            THEN num ELSE <<>>
      [] pattern = 4 ->
            IF At(s, i) = "(" /\ inner # <<>> /\ At(s, inner[2] + 1) = ")" THEN inner ELSE <<>>
      [] pattern = 5 ->
            IF num # <<>> /\ \E e \in UnitEnds(s, num[3]) : e = Len(s) + 1 \/ At(s, e) \in Space
            THEN num ELSE <<>>
      [] pattern = 6 ->
            WorthMarksAt(s, i, Run(s, i + 5, Space), NumberAt(s, i + 5 + Run(s, i + 5, Space)))
      [] pattern = 7 ->
            IF num # <<>> /\ \E e \in UnitEnds(s, num[3]) :
                                LitAt(s, e + Run(s, e, Space), <<"e", "a", "c", "h">>)
            THEN num ELSE <<>>

MarkPatternAt(pattern, s, i) == PatternMatchAt(pattern, s, i, NumberAt(s, i), NumberAt(s, i + 1))

mark_patterns == <<1, 2, 3, 4, 5, 6, 7>>

\* the positions of the lower-cased text s at which the pattern matches
MatchStarts(pattern, s) == {i \in 1..Len(s) : MarkPatternAt(pattern, s, i) # <<>>}

\* the digits of the number num of s
GroupText(s, num) == SubSeq(s, num[1], num[2])

\* the group (\d+) of the leftmost of the matches starting at the positions I
LeftmostGroup(pattern, s, I) ==
    IF I = {} THEN <<>> ELSE GroupText(s, MarkPatternAt(pattern, s, MinOf(I)))

\* re.findall(pattern, question_text, re.IGNORECASE)[0]: the digits of the
\* first match, <<>> when the pattern matches nowhere
FirstMarksMatch(pattern, text) ==
    LeftmostGroup(pattern, Lower(text), MatchStarts(pattern, Lower(text)))

\* `if marks > 0:` "Valid marks must be positive"
ValidMarks_Any(marks) == TRUE
ValidMarks(marks) == marks > 0

\* `marks = int(matches[0])` and `if marks > 0: return marks`: the marks
\* returned for the matches of each pattern, NoneNum when the loop goes on
MarksOfMatch(m) == IF m # <<>> /\ ValidMarks(IntOf(m)) THEN Some(IntOf(m)) ELSE NoneNum

\* the loop over mark_patterns from pattern `from` on, found the marks
\* returned by the patterns before `from`
RECURSIVE MarksFrom(_, _, _)
MarksFrom(text, from, found) ==
    IF found # NoneNum \/ from > Len(mark_patterns) THEN found
    ELSE MarksFrom(text, from + 1, MarksOfMatch(FirstMarksMatch(mark_patterns[from], text)))

\* DifficultyCalculator.extract_question_marks
extract_question_marks(question_text) ==
    IF question_text = <<>> THEN NoneNum ELSE MarksFrom(question_text, 1, NoneNum)

\* no exam_data argument (None), or an exam dict with its cover total
NoExam == [present |-> FALSE, cover |-> NoneNum]

\* `exam_data and exam_data.get('total_marks_from_cover')`
HasCover(ed) == ed.present /\ ed.cover # NoneNum /\ ed.cover # Some(0)

\* "Fallback: sum question marks"
RECURSIVE SumMarks(_)
SumMarks(qs) ==
    IF qs = <<>> THEN [total |-> 0, found_any |-> FALSE]
    ELSE LET rest == SumMarks(Tail(qs))
             marks == extract_question_marks(Head(qs).text)
         IN IF marks # NoneNum
               THEN [total |-> rest.total + marks[1], found_any |-> TRUE]
               ELSE rest

SummedTotal(qs) ==
    LET summed == SumMarks(qs) IN IF summed.found_any THEN Some(summed.total) ELSE NoneNum

\* DifficultyCalculator.calculate_total_exam_marks
calculate_total_exam_marks_SumFirst(qs, ed) ==
    IF SummedTotal(qs) # NoneNum THEN SummedTotal(qs)
    ELSE IF HasCover(ed) /\ 10 <= ed.cover[1] /\ ed.cover[1] <= 300 THEN ed.cover ELSE NoneNum
calculate_total_exam_marks(qs, ed) ==
    IF HasCover(ed) /\ 10 <= ed.cover[1] /\ ed.cover[1] <= 300
        THEN ed.cover
        ELSE SummedTotal(qs)

\* max(0.0, min(1.0, score)) of the ratio num/den, den > 0; a score is <<num, den>>
Clamp01_Off(num, den) == <<num, den>>
Clamp01(num, den) ==
    IF num > den THEN <<1, 1>> ELSE IF num < 0 THEN <<0, 1>> ELSE <<num, den>>

\* DifficultyCalculator.calculate_difficulty_score
calculate_difficulty_score(question_marks, total_exam_marks) ==
    IF question_marks = NoneNum \/ total_exam_marks = NoneNum THEN NoneNum
    ELSE IF total_exam_marks[1] <= 0 THEN NoneNum
    ELSE Clamp01(question_marks[1], total_exam_marks[1])

\* "if total marks > 300, likely extraction error": total_marks = None
DiscardTooLarge_Off(total_marks) == total_marks
DiscardTooLarge(total_marks) ==
    IF total_marks # NoneNum /\ total_marks[1] > 300 THEN NoneNum ELSE total_marks

\* "Track where marks came from"
MarksSource(ed, total_marks) ==
    IF HasCover(ed) /\ total_marks = ed.cover THEN "cover_page"
    ELSE IF total_marks # NoneNum /\ total_marks # Some(0) THEN "calculated_sum"
    ELSE NoneStr

\* DifficultyCalculator.process_exam_questions: <<updated_questions, stats>>
process_exam_questions(qs, ed) ==
    LET chosen == calculate_total_exam_marks(qs, ed)
        total_marks == DiscardTooLarge(chosen)
        updated == [i \in 1..Len(qs) |->
                      LET question_marks == extract_question_marks(qs[i].text) IN
                      [qs[i] EXCEPT !.difficulty_score =
                                        calculate_difficulty_score(question_marks, total_marks),
                                    !.question_marks = question_marks]]
        with_marks == Cardinality({i \in 1..Len(qs) : updated[i].question_marks # NoneNum})
        with_scores == Cardinality({i \in 1..Len(qs) : updated[i].difficulty_score # NoneNum})
    IN <<updated,
         [total_exam_marks |-> total_marks,
          questions_with_marks |-> with_marks,
          questions_without_marks |-> Len(qs) - with_marks,
          questions_with_scores |-> with_scores,
          marks_source |-> MarksSource(ed, chosen)]>>

\* question texts of the difficulty stage
MarkTexts == { <<"w">>,
               <<"w", "(", "0", ")">>,
               <<"w", "(", "5", ")">>,
               <<"(", "1", "0", ")", "w">>,
               <<"w", "(", "1", "5", "0", ")">>,
               <<"w", "(", "2", "0", "0", ")", "(", "5", ")">> }

\* total_marks_from_cover values an exam record can carry
CoverValues == {NoneNum, Some(0), Some(5), Some(10), Some(120), Some(300), Some(500)}

\* question object as built by extract_questions_from_text
FreshQuestion(t) ==
    [text |-> t, question_marks |-> extract_question_marks(t), difficulty_score |-> NoneNum]

NoStats ==
    [total_exam_marks |-> NoneNum, questions_with_marks |-> 0, questions_without_marks |-> 0,
     questions_with_scores |-> 0, marks_source |-> NoneStr]

InitDiff ==
    /\ \E n \in 1..MaxDQ : \E ts \in [1..n -> MarkTexts] :
          dq = [i \in 1..n |-> FreshQuestion(ts[i])]
    /\ \E c \in CoverValues : exam_data = [present |-> TRUE, cover |-> c]
    /\ dstats = NoStats
    /\ dphase = "segmented"
    /\ IdleNotDiff

\* parse_extracted_text_to_questions: process_exam_questions(questions), no exam_data
ParseStageScore ==
    /\ dphase = "segmented"
    /\ LET processed_questions == process_exam_questions(dq, NoExam)
       IN  dq' = processed_questions[1] /\ dstats' = processed_questions[2]
    /\ dphase' = "parsed"
    /\ UNCHANGED <<exam_data, notDiffVars>>

\* calculate_difficulty_from_marks: process_exam_questions(questions, exam)
CalculateDifficultyFromMarks ==
    /\ dphase = "parsed"
    /\ LET processed_questions == process_exam_questions(dq, exam_data)
       IN  dq' = processed_questions[1] /\ dstats' = processed_questions[2]
    /\ dphase' = "scored"
    /\ UNCHANGED <<exam_data, notDiffVars>>

NextDiff == ParseStageScore \/ CalculateDifficultyFromMarks

SpecDiff == InitDiff /\ [][NextDiff]_vars

\* the exam_data argument of the last process_exam_questions call
UsedExamData == IF dphase = "scored" THEN exam_data ELSE NoExam

Processed == dphase \in {"parsed", "scored"}

ValidCover(ed) == ed.present /\ ed.cover # NoneNum /\ 10 <= ed.cover[1] /\ ed.cover[1] <= 300

\* C4: difficulty_score is null whenever the question's marks or the exam's
\* total marks is null; when both are non-null it is non-null and in [0,1].
C4_ScoreNullOrInUnitInterval ==
    Processed =>
        \A i \in 1..Len(dq) :
            IF dq[i].question_marks = NoneNum \/ dstats.total_exam_marks = NoneNum
            THEN dq[i].difficulty_score = NoneNum
            ELSE /\ dq[i].difficulty_score # NoneNum
                 /\ dq[i].difficulty_score[2] > 0
                 /\ 0 <= dq[i].difficulty_score[1]
                 /\ dq[i].difficulty_score[1] <= dq[i].difficulty_score[2]

C4_Witness ==
    /\ dphase = "scored"
    /\ dstats.total_exam_marks = Some(10)
    /\ \E i \in 1..Len(dq) : dq[i].question_marks = Some(150) /\ dq[i].difficulty_score = <<1, 1>>
    /\ \E i \in 1..Len(dq) : dq[i].question_marks = NoneNum /\ dq[i].difficulty_score = NoneNum

\* C5: with a cover total in [10,300] the total of every score is exactly the
\* cover value whatever the marks sum to; the sum is the total only when no
\* valid cover total is available.
C5_CoverTotalHasPriority ==
    Processed =>
        /\ ValidCover(UsedExamData) =>
              /\ dstats.total_exam_marks = UsedExamData.cover
              /\ \A i \in 1..Len(dq) :
                    dq[i].question_marks # NoneNum =>
                        /\ dq[i].difficulty_score # NoneNum
                        /\ \/ dq[i].difficulty_score = <<dq[i].question_marks[1], UsedExamData.cover[1]>>
                           \/ /\ dq[i].question_marks[1] > UsedExamData.cover[1]
                              /\ dq[i].difficulty_score = <<1, 1>>
        /\ (~ValidCover(UsedExamData) /\ dstats.total_exam_marks # NoneNum) =>
              dstats.total_exam_marks = SummedTotal(dq)

C5_Witness ==
    /\ dphase = "scored"
    /\ exam_data.cover = Some(120)
    /\ SummedTotal(dq) = Some(15)
    /\ \E i \in 1..Len(dq) : dq[i].difficulty_score = <<10, 120>>

\* C6: a chosen total above 300 is discarded: stats.total_exam_marks is null
\* and every difficulty_score is null; no stats carries a total above 300.
C6_TotalAbove300Discarded ==
    Processed =>
        /\ dstats.total_exam_marks # NoneNum => dstats.total_exam_marks[1] <= 300
        /\ LET chosen == calculate_total_exam_marks(dq, UsedExamData) IN
           (chosen # NoneNum /\ chosen[1] > 300) =>
               /\ dstats.total_exam_marks = NoneNum
               /\ \A i \in 1..Len(dq) : dq[i].difficulty_score = NoneNum

C6_Witness ==
    /\ Processed
    /\ SummedTotal(dq) = Some(350)
    /\ dstats.total_exam_marks = NoneNum
    /\ \E i \in 1..Len(dq) : dq[i].question_marks = Some(200) /\ dq[i].difficulty_score = NoneNum

(***************************************************************************)
(* Cleaner / deduplicator                                                  *)
(*                                                                         *)
(* The texts of this stage are written over the digits, the letters        *)
(* a b c d w A B W, the blank and . / ( ) [ ]; every pattern of the        *)
(* cleaner that can match a text over these characters is modelled, the    *)
(* others (they need further letters, ©, @, :, -) cannot match.            *)
(***************************************************************************)
MaxCQ == 3           \* questions handed to the cleaner
MaxCleanCalls == 2   \* clean_dataset calls on one ExamDataCleaner instance

min_question_length == 20
SimilarityNum == 85      \* similarity_threshold = 0.85 = SimilarityNum / SimilarityDen
SimilarityDen == 100
LetterRatioNum == 15     \* letter_ratio < 0.15
LetterRatioDen == 100

RECURSIVE Rep(_, _)
Rep(c, n) == IF n = 0 THEN <<>> ELSE <<c>> \o Rep(c, n - 1)

\* re.sub(r'\s+', ' ', text)
RECURSIVE CollapseWs(_)
CollapseWs(s) ==
    IF s = <<>> THEN <<>>
    ELSE IF Head(s) \in Space THEN <<" ">> \o CollapseWs(LStrip(s))
    ELSE <<Head(s)>> \o CollapseWs(Tail(s))

\* ExamDataCleaner.clean_text
clean_text(text) == IF text = <<>> THEN <<>> ELSE Strip(CollapseWs(text))

\* length of the match of '\d+/\d+/\d+' starting at position i, 0 if none
DateLenAt(s, i) ==
    LET d1 == Run(s, i, Digits)
        d2 == Run(s, i + d1 + 1, Digits)
        d3 == Run(s, i + d1 + d2 + 2, Digits)
    IN IF /\ d1 >= 1 /\ At(s, i + d1) = "/"
          /\ d2 >= 1 /\ At(s, i + d1 + 1 + d2) = "/"
          /\ d3 >= 1
       THEN d1 + d2 + d3 + 2 ELSE 0

\* re.sub(r'\d+/\d+/\d+', '', text)
RECURSIVE SubDates(_, _)
SubDates(s, i) ==
    IF i > Len(s) THEN <<>>
    ELSE IF DateLenAt(s, i) > 0 THEN SubDates(s, i + DateLenAt(s, i))
    ELSE <<s[i]>> \o SubDates(s, i + 1)

\* length of the match of '\[.*?\]' starting at position i, 0 if none
RECURSIVE CloseAt(_, _)
CloseAt(s, j) ==
    IF j > Len(s) \/ s[j] = "\n" THEN 0
    ELSE IF s[j] = "]" THEN j
    ELSE CloseAt(s, j + 1)

BracketLenAt(s, i) ==
    IF s[i] = "[" /\ CloseAt(s, i + 1) > 0 THEN CloseAt(s, i + 1) - i + 1 ELSE 0

\* re.sub(r'\[.*?\]', '', text)
RECURSIVE SubBrackets(_, _)
SubBrackets(s, i) ==
    IF i > Len(s) THEN <<>>
    ELSE IF BracketLenAt(s, i) > 0 THEN SubBrackets(s, i + BracketLenAt(s, i))
    ELSE <<s[i]>> \o SubBrackets(s, i + 1)

\* ExamDataCleaner.remove_noise: the noise patterns in list order, then clean_text
remove_noise(text) == clean_text(SubBrackets(SubDates(text, 1), 1))

\* ExamDataCleaner.validate_question
validate_question(text) ==
    LET letters == Cardinality({i \in 1..Len(text) : text[i] \in Alpha}) IN
    /\ Len(text) >= min_question_length
    /\ Len(Strip(text)) >= min_question_length
    /\ letters * LetterRatioDen >= LetterRatioNum * Len(text)
    /\ \E i \in 1..Len(text) : text[i] \in Alpha \cup Digits

UpperAD == {"A", "B", "C", "D"}
WordChars == Alpha \cup Digits \cup {"_"}

\* length of the match of option pattern pid starting at position i, 0 if none
OptionLenAt(pid, s, i) ==
    IF s[i] \in UpperAD /\ pid # 2
    THEN CASE pid = 1 -> IF At(s, i + 1) = ")" /\ i + 2 <= Len(s) /\ s[i + 2] \notin WordChars
                         THEN 3 ELSE 0                                   \* [A-D]\)[^\w]
           [] pid = 3 -> IF At(s, i + 1) = "." /\ At(s, i + 2) \in Space
                         THEN 3 ELSE 0                                   \* [A-D]\.\s
           [] pid = 4 -> LET sp == Run(s, i + 1, Space) IN
                         IF sp >= 1 /\ At(s, i + 1 + sp) \in UpperLetters
                         THEN sp + 2 ELSE 0                              \* [A-D]\s+[A-Z]
    ELSE IF pid = 2 /\ s[i] = "(" /\ At(s, i + 1) \in UpperAD /\ At(s, i + 2) = ")"
         THEN 3 ELSE 0                                                   \* \(([A-D])\)

\* re.finditer(pattern, text): <<start, end>> of the non-overlapping matches
RECURSIVE OptionMatches(_, _, _)
OptionMatches(pid, s, i) ==
    IF i > Len(s) THEN <<>>
    ELSE IF OptionLenAt(pid, s, i) > 0
         THEN <<<<i, i + OptionLenAt(pid, s, i) - 1>>>>
              \o OptionMatches(pid, s, i + OptionLenAt(pid, s, i))
    ELSE OptionMatches(pid, s, i + 1)

\* ExamDataCleaner.extract_multiple_choice_options: the first option pattern
\* with two or more matches splits the text at its first match
extract_multiple_choice_options(question_text) ==
    LET P == {pid \in 1..4 : Len(OptionMatches(pid, question_text, 1)) >= 2} IN
    IF P = {} THEN [text |-> question_text, num_options |-> 0]
    ELSE LET ms == OptionMatches(MinOf(P), question_text, 1)
             option_text(k) ==
                 clean_text(Strip(SubSeq(question_text, ms[k][2] + 1,
                     IF k < Len(ms) THEN ms[k + 1][1] - 1 ELSE Len(question_text))))
         IN [text |-> Strip(SubSeq(question_text, 1, ms[1][1] - 1)),
             num_options |-> Cardinality({k \in 1..Len(ms) : Len(option_text(k)) >= 3})]

\* ExamDataCleaner.clean_question_structure
clean_question_structure(question) ==
    LET text == remove_noise(question.text)
        mc == extract_multiple_choice_options(text)
        is_mc == question.question_type = "multiple_choice"
    IN [question_number |-> NoneNum,
        id |-> IF question.question_number # NoneNum THEN question.question_number ELSE Some(0),
        text |-> IF is_mc THEN mc.text ELSE text,
        question_type |-> question.question_type,
        original_length |-> Some(Len(question.text)),
        cleaned_length |-> Some(Len(text)),
        num_options |-> IF is_mc THEN Some(mc.num_options) ELSE NoneNum]

\* difflib.SequenceMatcher.find_longest_match without junk: the longest block,
\* of those the one starting earliest in a, of those the earliest in b.  A
\* longest block cannot be extended to the left, so only the pairs at which a
\* block starts are candidates.
RECURSIVE MatchLen(_, _, _, _, _, _)
MatchLen(a, b, i, j, ahi, bhi) ==
    IF i <= ahi /\ j <= bhi /\ a[i] = b[j] THEN 1 + MatchLen(a, b, i + 1, j + 1, ahi, bhi) ELSE 0

find_longest_match(a, b, alo, ahi, blo, bhi) ==
    LET starts == {p \in (alo..ahi) \X (blo..bhi) :
                      /\ a[p[1]] = b[p[2]]
                      /\ (p[1] = alo \/ p[2] = blo \/ a[p[1] - 1] # b[p[2] - 1])}
        blocks == {<<MatchLen(a, b, p[1], p[2], ahi, bhi), p[1], p[2]>> : p \in starts}
        kmax == MaxOf({t[1] : t \in blocks})
        i == MinOf({t[2] : t \in {u \in blocks : u[1] = kmax}})
        j == MinOf({t[3] : t \in {u \in blocks : u[1] = kmax /\ u[2] = i}})
    IN IF starts = {} THEN [a |-> alo, b |-> blo, size |-> 0]
       ELSE [a |-> i, b |-> j, size |-> kmax]

\* sum of the sizes of SequenceMatcher.get_matching_blocks
RECURSIVE MatchedChars(_, _, _, _, _, _)
MatchedChars(a, b, alo, ahi, blo, bhi) ==
    IF alo > ahi \/ blo > bhi THEN 0
    ELSE LET m == find_longest_match(a, b, alo, ahi, blo, bhi) IN
         IF m.size = 0 THEN 0
         ELSE m.size + MatchedChars(a, b, alo, m.a - 1, blo, m.b - 1)
                     + MatchedChars(a, b, m.a + m.size, ahi, m.b + m.size, bhi)

\* SequenceMatcher(None, a, b).ratio() >= similarity_threshold
Similar(a, b) ==
    IF Len(a) + Len(b) = 0 THEN TRUE
    ELSE 2 * MatchedChars(a, b, 1, Len(a), 1, Len(b)) * SimilarityDen
            >= SimilarityNum * (Len(a) + Len(b))

\* question.get('text', '').lower().strip(); the md5 digest of this text is
\* modelled by the text itself (equal digests for equal texts)
NormText(question) == Strip(Lower(question.text))

\* the inner loop over unique_questions
SimilarToLastKept(text, unique_questions) ==
    unique_questions # <<>> /\ Similar(text, NormText(unique_questions[Len(unique_questions)]))
SimilarToKept(text, unique_questions) ==
    \E k \in 1..Len(unique_questions) : Similar(text, NormText(unique_questions[k]))

\* the loop of remove_duplicates over the remaining questions
RECURSIVE DedupLoop(_, _, _, _)
DedupLoop(qs, unique_questions, seen_hashes, removed) ==
    IF qs = <<>> THEN [unique |-> unique_questions, removed |-> removed]
    ELSE LET text == NormText(Head(qs)) IN
         IF text \in seen_hashes
         THEN DedupLoop(Tail(qs), unique_questions, seen_hashes, removed + 1)
         ELSE IF SimilarToKept(text, unique_questions)
         THEN DedupLoop(Tail(qs), unique_questions, seen_hashes, removed + 1)
         ELSE DedupLoop(Tail(qs), Append(unique_questions, Head(qs)),
                        seen_hashes \cup {text}, removed)

\* ExamDataCleaner.remove_duplicates: unique questions and the increment of
\* cleaning_stats['removed_duplicates']
remove_duplicates(qs) == DedupLoop(qs, <<>>, {}, 0)

\* Step 1 of clean_dataset: clean and validate each question
RECURSIVE ValidateLoop(_)
ValidateLoop(qs) ==
    IF qs = <<>> THEN [kept |-> <<>>, too_short |-> 0, invalid |-> 0]
    ELSE LET cleaned_q == clean_question_structure(Head(qs))
             rest == ValidateLoop(Tail(qs))
         IN IF validate_question(cleaned_q.text)
            THEN [rest EXCEPT !.kept = <<cleaned_q>> \o rest.kept]
            ELSE IF Len(cleaned_q.text) < min_question_length
            THEN [rest EXCEPT !.too_short = rest.too_short + 1]
            ELSE [rest EXCEPT !.invalid = rest.invalid + 1]

\* ExamDataCleaner.__init__: cleaning_stats
FreshStats ==
    [total_questions |-> 0, removed_duplicates |-> 0, removed_too_short |-> 0,
     removed_invalid |-> 0, removed_noise |-> 0, final_count |-> 0]

RawQ(n, t, type) ==
    [question_number |-> Some(n), id |-> NoneNum, text |-> t, question_type |-> type,
     original_length |-> NoneNum, cleaned_length |-> NoneNum, num_options |-> NoneNum]

\* questions of exam_analysis.json handed to the cleaner
RawQuestions ==
    { RawQ(1, <<"1", ".", " ">> \o Rep("a", 18), "other"),
      RawQ(1, <<"1", ".", " ", "A">> \o Rep("a", 17), "other"),
      RawQ(2, <<"2", ".", " ">> \o Rep("a", 18), "other"),
      RawQ(3, <<"3", ".", " ">> \o Rep("b", 18), "other"),
      RawQ(4, <<"4", ".", " ">> \o Rep("1", 18), "other"),
      RawQ(5, <<"5", ".", " ">> \o Rep("b", 14) \o <<"1", "/", "[", "a", "]", "1", "/", "1">>, "numerical"),
      RawQ(6, <<"6", ".", " ">> \o Rep("b", 16) \o <<"[", "a", "]">>, "other"),
      RawQ(8, <<"8", ".", " ">> \o Rep("w", 17) \o <<" ", "A", ")", " ", "w", " ", "B", ")", " ", "w">>,
           "multiple_choice"),
      RawQ(7, <<"7", ".", " ", "A", " ", "W", "w", " ", "B", " ", "W", "w">>
              \o <<" ", "A", ")", "w", " ", "B", ")", "w">>
              \o <<" ", "A", ".", " ", "w", " ", "B", ".", " ", "w">>,
           "multiple_choice") }

InitClean ==
    /\ \E n \in 1..MaxCQ : cq \in [1..n -> RawQuestions]
    /\ cin = <<>>
    /\ cprev = <<>>
    /\ cstats = FreshStats
    /\ cphase = "raw"
    /\ ccalls = 0
    /\ IdleNotClean

\* ExamDataCleaner.remove_duplicates called on a question list
RemoveDuplicates ==
    /\ cphase = "raw"
    /\ LET u == remove_duplicates(cq)
       IN /\ cq' = u.unique
          /\ cstats' = [cstats EXCEPT !.removed_duplicates = @ + u.removed]
    /\ cin' = cq
    /\ cphase' = "deduped"
    /\ UNCHANGED <<cprev, ccalls, notCleanVars>>

\* ExamDataCleaner.clean_dataset, on the raw list and then on its own output
CleanDataset ==
    /\ cphase \in {"raw", "cleaned"}
    /\ ccalls < MaxCleanCalls
    /\ LET v == ValidateLoop(cq)
           u == remove_duplicates(v.kept)
       IN /\ cq' = u.unique
          /\ cin' = v.kept
          /\ cstats' = [cstats EXCEPT !.total_questions = Len(cq),
                                      !.removed_too_short = @ + v.too_short,
                                      !.removed_invalid = @ + v.invalid,
                                      !.removed_duplicates = @ + u.removed,
                                      !.final_count = Len(u.unique)]
    /\ cprev' = cq
    /\ cphase' = "cleaned"
    /\ ccalls' = ccalls + 1
    /\ UNCHANGED notCleanVars

NextClean == RemoveDuplicates \/ CleanDataset

SpecClean == InitClean /\ [][NextClean]_vars

\* cq is cin with the units at the positions outside the range of f removed
KeptAt(f) ==
    /\ \A m \in 1..Len(cq) : cq[m] = cin[f[m]]
    /\ \A m \in 1..Len(cq), n \in 1..Len(cq) : m < n => f[m] < f[n]

\* C7: the output of remove_duplicates has no two units with identical
\* normalized text and no unit similar (>= 0.85) to a unit kept before it; it is
\* an order-preserving subsequence of the input and every removed unit
\* collapses into a unit kept from an earlier input position.
C7_DedupKeepsFirst ==
    cphase \in {"deduped", "cleaned"} =>
        /\ \A i \in 1..Len(cq), j \in 1..Len(cq) :
              i < j => /\ NormText(cq[i]) # NormText(cq[j])
                       /\ ~Similar(NormText(cq[j]), NormText(cq[i]))
        /\ \E f \in [1..Len(cq) -> 1..Len(cin)] :
              /\ KeptAt(f)
              /\ \A k \in 1..Len(cin) :
                    (\A m \in 1..Len(cq) : f[m] # k) =>
                        \E m \in 1..Len(cq) :
                            /\ f[m] < k
                            /\ \/ NormText(cin[k]) = NormText(cq[m])
                               \/ Similar(NormText(cin[k]), NormText(cq[m]))

C7_Witness ==
    /\ cphase = "deduped"
    /\ Len(cin) = 3 /\ Len(cq) = 2
    /\ cin[1].question_number = Some(1)
    /\ cin[2].question_number = Some(3)
    /\ cin[3].question_number = Some(2)
    /\ cq = SubSeq(cin, 1, 2)

UnitSet(qs) == {<<qs[i].text, qs[i].question_type>> : i \in 1..Len(qs)}

\* C8: cleaning is idempotent: clean_dataset on the output of clean_dataset
\* yields the same set of units and drops no unit.
C8_CleanIdempotent ==
    (cphase = "cleaned" /\ ccalls = 2) =>
        /\ Len(cq) = Len(cprev)
        /\ UnitSet(cq) = UnitSet(cprev)

(***************************************************************************)
(* Type labels                                                             *)
(***************************************************************************)
\* the labels of the QuestionTypeDetector docstring
QuestionTypes == {"multiple_choice", "true_false", "numerical", "essay", "short_answer", "other"}

\* C16: after segmentation and any number of sub-question passes, every
\* unit's question_type is one of the six labels of the enumeration.
C16_TypeInEnumeration ==
    \A i \in 1..Len(questions) : questions[i].question_type \in QuestionTypes

(***************************************************************************)
(* Question type detector                                                  *)
(***************************************************************************)
WordChar == Alpha \cup Digits \cup {"_"}

\* \b at position i: exactly one of the characters before and at i is a word character
Boundary(s, i) == (At(s, i - 1) \in WordChar) # (At(s, i) \in WordChar)

\* re.search(r'\blit\b', s)
HasWord(s, lit) ==
    \E i \in 1..Len(s) : Boundary(s, i) /\ LitAt(s, i, lit) /\ Boundary(s, i + Len(lit))

\* lit in s
HasLit(s, lit) == \E i \in 1..Len(s) : LitAt(s, i, lit)

\* the position after a match of `lit\s+` at position i, 0 when it does not match
AfterLitSp(s, i, lit) ==
    IF LitAt(s, i, lit) /\ Run(s, i + Len(lit), Space) >= 1
    THEN i + Len(lit) + Run(s, i + Len(lit), Space)
    ELSE 0

\* the position after a match of `lit\s+(the\s+)?` at position i, 0 when it does not match
AfterLitSpThe(s, i, lit) ==
    LET j == AfterLitSp(s, i, lit)
        k == AfterLitSp(s, j, <<"t", "h", "e">>)
    IN IF k > 0 THEN k ELSE j

\* re.search(r'\bw1\s+w2\b', s)
HasWordPair(s, w1, w2) ==
    \E i \in 1..Len(s) :
        /\ Boundary(s, i)
        /\ LitAt(s, AfterLitSp(s, i, w1), w2)
        /\ Boundary(s, AfterLitSp(s, i, w1) + Len(w2))

\* tf_patterns on the lower-cased text
tf_patterns(s) ==
    \/ \E i \in 1..Len(s) :   \* \btrue\s+or\s+false\b
          LET k == AfterLitSp(s, AfterLitSp(s, i, <<"t", "r", "u", "e">>), <<"o", "r">>)
          IN Boundary(s, i) /\ LitAt(s, k, <<"f", "a", "l", "s", "e">>) /\ Boundary(s, k + 5)
    \/ HasWord(s, <<"t", "r", "u", "e", "/", "f", "a", "l", "s", "e">>)   \* \btrue/false\b
    \/ HasWord(s, <<"t", "/", "f">>)   \* \bT/F\b
    \/ \E i \in 1..Len(s) :   \* \bt\.?\s*f\.?\b
          LET j == IF At(s, i + 1) = "." THEN i + 2 ELSE i + 1
              k == j + Run(s, j, Space)
          IN /\ Boundary(s, i) /\ s[i] = "t" /\ At(s, k) = "f"
             /\ \/ At(s, k + 1) = "." /\ Boundary(s, k + 2)
                \/ Boundary(s, k + 1)
    \/ \E i \in 1..Len(s) :   \* circle\s+(true|false)
          LET k == AfterLitSp(s, i, <<"c", "i", "r", "c", "l", "e">>)
          IN LitAt(s, k, <<"t", "r", "u", "e">>) \/ LitAt(s, k, <<"f", "a", "l", "s", "e">>)

\* numerical_patterns on the lower-cased text
numerical_patterns(s) ==
    \/ \E w \in {<<"c", "a", "l", "c", "u", "l", "a", "t", "e">>, <<"c", "o", "m", "p", "u", "t", "e">>,
                     <<"e", "v", "a", "l", "u", "a", "t", "e">>} : HasWord(s, w)
    \/ \E i \in 1..Len(s) :   \* \bfind\s+(the\s+)?(value|result|answer|solution)
          /\ Boundary(s, i)
          /\ \E w \in {<<"v", "a", "l", "u", "e">>, <<"r", "e", "s", "u", "l", "t">>,
                          <<"a", "n", "s", "w", "e", "r">>, <<"s", "o", "l", "u", "t", "i", "o", "n">>} : LitAt(s, AfterLitSpThe(s, i, <<"f", "i", "n", "d">>), w)
    \/ HasWordPair(s, <<"s", "o", "l", "v", "e">>, <<"f", "o", "r">>)   \* \bsolve\s+for\b
    \/ \E i \in 1..Len(s) :   \* \bdetermine\s+(the\s+)?(value|number|amount)
          /\ Boundary(s, i)
          /\ \E w \in {<<"v", "a", "l", "u", "e">>, <<"n", "u", "m", "b", "e", "r">>,
                          <<"a", "m", "o", "u", "n", "t">>} : LitAt(s, AfterLitSpThe(s, i, <<"d", "e", "t", "e", "r", "m", "i", "n", "e">>), w)
    \/ \E i \in 1..Len(s) :   \* \d+\s*[+\-*/=]\s*\d+
          LET j == i + 1 + Run(s, i + 1, Space)
          IN /\ s[i] \in Digits
             /\ At(s, j) \in {"+", "-", "*", "/", "="}
             /\ At(s, j + 1 + Run(s, j + 1, Space)) \in Digits

\* essay_patterns on the lower-cased text: \bexplain\b ... \bhow\b, \bshow\s+that\b
essay_patterns(s) ==
    \/ \E w \in {<<"e", "x", "p", "l", "a", "i", "n">>, <<"d", "e", "s", "c", "r", "i", "b", "e">>,
                     <<"d", "i", "s", "c", "u", "s", "s">>, <<"a", "n", "a", "l", "y", "z", "e">>,
                     <<"c", "o", "m", "p", "a", "r", "e">>, <<"c", "o", "n", "t", "r", "a", "s", "t">>,
                     <<"e", "v", "a", "l", "u", "a", "t", "e">>, <<"c", "r", "i", "t", "i", "q", "u", "e">>,
                     <<"a", "r", "g", "u", "e">>, <<"p", "r", "o", "v", "e">>, <<"w", "h", "y">>,
                     <<"h", "o", "w">>} : HasWord(s, w)
    \/ HasWordPair(s, <<"s", "h", "o", "w">>, <<"t", "h", "a", "t">>)

\* short_answer_patterns on the lower-cased text
short_answer_patterns(s) ==
    \/ LET n == Run(s, 1, WordChar)   \* ^\w+\s+(is|are|does|do)\s+
           j == n + 1 + Run(s, n + 1, Space)
       IN /\ n >= 1 /\ j > n + 1
          /\ \E w \in {<<"i", "s">>, <<"a", "r", "e">>, <<"d", "o", "e", "s">>, <<"d", "o">>} : AfterLitSp(s, j, w) > 0
    \/ \E i \in 1..Len(s) :   \* name\s+ | list\s+ | identify\s+
          \E w \in {<<"n", "a", "m", "e">>, <<"l", "i", "s", "t">>, <<"i", "d", "e", "n", "t", "i", "f", "y">>} : AfterLitSp(s, i, w) > 0

\* number of matches of a marker pattern: [A-E]\)  \([a-e]\)  [a-e]\.\s
uppercase_options(text) ==
    Cardinality({i \in 1..Len(text) : text[i] \in {"A", "B", "C", "D", "E"} /\ At(text, i + 1) = ")"})
lowercase_options(text) ==
    Cardinality({i \in 1..Len(text) : /\ text[i] = "("
                                      /\ At(text, i + 1) \in {"a", "b", "c", "d", "e"}
                                      /\ At(text, i + 2) = ")"})
dot_options(text) ==
    Cardinality({i \in 1..Len(text) : /\ text[i] \in {"a", "b", "c", "d", "e"}
                                      /\ At(text, i + 1) = "."
                                      /\ At(text, i + 2) \in Space})

option_count(text) ==
    MaxOf({uppercase_options(text), lowercase_options(text), dot_options(text)})

\* 'choose the best', 'select the', 'circle the', 'mark the',
\* 'which of the following', 'all of the above', 'none of the above'
mc_indicators ==
    { <<"c", "h", "o", "o", "s", "e", " ", "t", "h", "e", " ", "b", "e", "s", "t">>,
      <<"s", "e", "l", "e", "c", "t", " ", "t", "h", "e">>,
      <<"c", "i", "r", "c", "l", "e", " ", "t", "h", "e">>,
      <<"m", "a", "r", "k", " ", "t", "h", "e">>,
      <<"w", "h", "i", "c", "h", " ", "o", "f", " ", "t", "h", "e", " ", "f", "o", "l", "l", "o", "w", "i", "n", "g">>,
      <<"a", "l", "l", " ", "o", "f", " ", "t", "h", "e", " ", "a", "b", "o", "v", "e">>,
      <<"n", "o", "n", "e", " ", "o", "f", " ", "t", "h", "e", " ", "a", "b", "o", "v", "e">> }

detect_multiple_choice(text) ==
    \/ option_count(text) >= 2
    \/ /\ \E indicator \in mc_indicators : HasLit(Lower(text), indicator)
       /\ option_count(text) >= 1

\* `length and length < n` / `not length and len(text) < n`
LengthOf(text, length) ==
    IF length # NoneNum /\ length # Some(0) THEN length[1] ELSE Len(text)

NumericalCeiling_Off(text, length) == TRUE
NumericalCeiling(text, length) == LengthOf(text, length) < 200
EssayFloor(text, length) == LengthOf(text, length) > 150
ShortAnswerCeiling(text, length) == LengthOf(text, length) < 200

detect_question_type(text, length) ==
    LET text_lower == Lower(text) IN
    IF text = <<>> THEN "other"
    ELSE IF detect_multiple_choice(text) THEN "multiple_choice"
    ELSE IF tf_patterns(text_lower) THEN "true_false"
    ELSE IF numerical_patterns(text_lower) /\ NumericalCeiling(text, length) THEN "numerical"
    ELSE IF essay_patterns(text_lower) /\ EssayFloor(text, length) THEN "essay"
    ELSE IF short_answer_patterns(text_lower) /\ ShortAnswerCeiling(text, length) THEN "short_answer"
    ELSE "other"

\* question texts handed to the detector
TypeTexts ==
    { <<>>,
      <<"A", ")", " ", "x", " ", "B", ")", " ", "y">>,
      <<"(", "a", ")", " ", "x", " ", "(", "b", ")", " ", "y", " ", "t", "r", "u", "e", " ", "o", "r", " ", "f", "a", "l", "s", "e">>,
      <<"a", ".", " ", "x", " ", "b", ".", " ", "y">>,
      <<"A", ")", " ", "x", " ", "(", "b", ")", " ", "y">>,
      <<"s", "e", "l", "e", "c", "t", " ", "t", "h", "e", " ", "A", ")", " ", "x">>,
      <<"s", "e", "l", "e", "c", "t", " ", "t", "h", "e", " ", "x">>,
      <<"T", "r", "u", "e", " ", "o", "r", " ", "F", "a", "l", "s", "e", ":", " ", "c", "a", "l", "c", "u", "l", "a", "t", "e", " ", "2", "+", "2">>,
      <<"T", "/", "F", " ", "x">>, <<"t", ".", " ", "f", ".">>,
      <<"c", "i", "r", "c", "l", "e", " ", "f", "a", "l", "s", "e">>,
      <<"C", "a", "l", "c", "u", "l", "a", "t", "e", " ", "x">>,
      <<"f", "i", "n", "d", " ", "t", "h", "e", " ", "v", "a", "l", "u", "e">>,
      <<"s", "o", "l", "v", "e", " ", "f", "o", "r", " ", "x">>,
      <<"d", "e", "t", "e", "r", "m", "i", "n", "e", " ", "a", "m", "o", "u", "n", "t">>,
      <<"2", " ", "+", " ", "3">>,
      <<"e", "v", "a", "l", "u", "a", "t", "e", " ", "a", "n", "d", " ", "e", "x", "p", "l", "a", "i", "n", " ", "w", "h", "y">>,
      <<"E", "x", "p", "l", "a", "i", "n", " ", "h", "o", "w">>,
      <<"W", "h", "a", "t", " ", "i", "s", " ", "x">>, <<"n", "a", "m", "e", " ", "x">>,
      <<"r", "e", "n", "a", "m", "e", " ", "i", "t">>,
      <<"E", "x", "p", "l", "a", "i", "n", " ", "w", "h", "a", "t", " ", "i", "s", " ", "x">>,
      <<"W", "h", "o", " ", "i", "s", " ", "x", ".", " ", "E", "x", "p", "l", "a", "i", "n">>,
      <<"s", "h", "o", "w", " ", "t", "h", "a", "t", " ", "x">>,
      <<"c", "o", "m", "p", "u", "t", "e">>, <<"w">>,
      <<"c", "a", "l", "c", "u", "l", "a", "t", "e", "d">>,
      <<"F", "i", "n", "d", " ", "r", "e", "s", "u", "l", "t">>,
      <<"t", "h", "e", " ", "c", "o", "d", "e", ".", " ", "t", "h", "e", " ", "n", "o", "d", "e", ".", " ", "w", "h", "y">> }

\* the length argument: absent, 0, or a character count
TypeLengths == {NoneNum, Some(0), Some(100), Some(150), Some(151), Some(199), Some(200), Some(300)}

\* a call detect_question_type(text, length) about to be made
InitType ==
    /\ ttext \in TypeTexts
    /\ tlength \in TypeLengths
    /\ tlabel = NoneStr
    /\ IdleNotType

\* QuestionTypeDetector.detect_question_type returns
DetectQuestionType ==
    /\ tlabel = NoneStr
    /\ tlabel' = detect_question_type(ttext, tlength)
    /\ UNCHANGED <<ttext, tlength, notTypeVars>>

NextType == DetectQuestionType

SpecType == InitType /\ [][NextType]_vars

UpperChar(c) ==
    CASE c = "a" -> "A" [] c = "b" -> "B" [] c = "c" -> "C" [] c = "d" -> "D" [] c = "e"
      -> "E" [] c = "f" -> "F" [] c = "g" -> "G" [] c = "h" -> "H" [] c = "i" -> "I"
      [] c = "j" -> "J" [] c = "k" -> "K" [] c = "l" -> "L" [] c = "m" -> "M" [] c =
      "n" -> "N" [] c = "o" -> "O" [] c = "p" -> "P" [] c = "q" -> "Q" [] c = "r" ->
      "R" [] c = "s" -> "S" [] c = "t" -> "T" [] c = "u" -> "U" [] c = "v" -> "V" [] c
      = "w" -> "W" [] c = "x" -> "X" [] c = "y" -> "Y" [] c = "z" -> "Z"
      [] OTHER -> c
Upper(s) == [i \in 1..Len(s) |-> UpperChar(s[i])]

language_courses ==
    {[prefix |-> <<"A", "R", "A", "B">>, lang |-> "ara+eng", language_name |-> "Arabic",
      needs_translation |-> FALSE],
     [prefix |-> <<"F", "R", "E", "N">>, lang |-> "fra+eng", language_name |-> "French",
      needs_translation |-> FALSE],
     [prefix |-> <<"S", "P", "A", "N">>, lang |-> "spa+eng", language_name |-> "Spanish",
      needs_translation |-> FALSE],
     [prefix |-> <<"G", "E", "R", "M">>, lang |-> "deu+eng", language_name |-> "German",
      needs_translation |-> FALSE],
     [prefix |-> <<"I", "T", "A", "L">>, lang |-> "ita+eng", language_name |-> "Italian",
      needs_translation |-> FALSE],
     [prefix |-> <<"C", "H", "I", "N">>, lang |-> "chi_sim+eng", language_name |-> "Chinese",
      needs_translation |-> FALSE],
     [prefix |-> <<"J", "A", "P", "A">>, lang |-> "jpn+eng", language_name |-> "Japanese",
      needs_translation |-> FALSE],
     [prefix |-> <<"K", "O", "R", "E">>, lang |-> "kor+eng", language_name |-> "Korean",
      needs_translation |-> FALSE],
     [prefix |-> <<"R", "U", "S", "S">>, lang |-> "rus+eng", language_name |-> "Russian",
      needs_translation |-> FALSE],
     [prefix |-> <<"P", "O", "R", "T">>, lang |-> "por+eng", language_name |-> "Portuguese",
      needs_translation |-> FALSE]}

math_courses ==
    {<<"M", "A", "T", "H">>, <<"S", "T", "A", "T">>, <<"P", "H", "Y", "S">>,
     <<"C", "H", "E", "M">>, <<"E", "N", "G", "R">>, <<"E", "L", "E", "C">>,
     <<"M", "E", "C", "H">>, <<"C", "I", "V", "L">>}

math_keywords ==
    {<<"e", "q", "u", "a", "t", "i", "o", "n">>, <<"f", "o", "r", "m", "u", "l", "a">>,
     <<"d", "e", "r", "i", "v", "a", "t", "i", "v", "e">>,
     <<"i", "n", "t", "e", "g", "r", "a", "l">>, <<"c", "a", "l", "c", "u", "l", "u", "s">>,
     <<"a", "l", "g", "e", "b", "r", "a">>, <<"g", "e", "o", "m", "e", "t", "r", "y">>,
     <<"t", "r", "i", "g", "o", "n", "o", "m", "e", "t", "r", "y">>,
     <<"m", "a", "t", "r", "i", "x">>, <<"v", "e", "c", "t", "o", "r">>,
     <<"s", "o", "l", "v", "e", " ", "f", "o", "r">>,
     <<"c", "a", "l", "c", "u", "l", "a", "t", "e">>,
     <<"s", "h", "o", "w", " ", "t", "h", "a", "t">>,
     <<"p", "r", "o", "v", "e", " ", "t", "h", "a", "t">>}

language_keywords ==
    {<<"t", "r", "a", "n", "s", "l", "a", "t", "e">>,
     <<"t", "r", "a", "n", "s", "l", "a", "t", "i", "o", "n">>,
     <<"g", "r", "a", "m", "m", "a", "r">>,
     <<"v", "o", "c", "a", "b", "u", "l", "a", "r", "y">>,
     <<"c", "o", "n", "j", "u", "g", "a", "t", "e">>, <<"v", "e", "r", "b">>,
     <<"a", "d", "j", "e", "c", "t", "i", "v", "e">>, <<"n", "o", "u", "n">>,
     <<"p", "r", "o", "n", "o", "u", "n">>}

\* text patterns naming a language, in lower case and in the language itself
NativeArabic == <<"U+0639", "U+0631", "U+0628", "U+064A">>
NativeFrench == <<"f", "r", "a", "n", "U+00E7", "a", "i", "s">>
NativeSpanish == <<"e", "s", "p", "a", "U+00F1", "o", "l">>

DefaultConfig ==
    [ocr_language |-> "eng", exam_type |-> "general", needs_math_ocr |-> FALSE,
     detected_language |-> NoneStr, ocr_config |-> "--psm 6",
     recommended_ocr_method |-> "tesseract", needs_translation |-> <<>>]

\* re.match(r'^([A-Z]{2,4})', course_code): <<>> when there is no match
CoursePrefix(course_code) ==
    LET n == MinOf({Run(course_code, 1, UpperLetters), 4}) IN
    IF n >= 2 THEN SubSeq(course_code, 1, n) ELSE <<>>

LanguageConfig(r, lang_info) ==
    [r EXCEPT !.ocr_language = lang_info.lang,
                   !.exam_type = "language",
                   !.detected_language = lang_info.language_name,
                   !.needs_translation = <<lang_info.needs_translation>>,
                   !.ocr_config = "--psm 6"]

MathConfig(r) ==
    [r EXCEPT !.exam_type = "math",
                   !.needs_math_ocr = TRUE,
                   !.ocr_language = "eng",
                   !.ocr_config = "--psm 6",
                   !.recommended_ocr_method = "mathpix_or_tesseract"]

Detected(r, lang, name) ==
    [r EXCEPT !.ocr_language = lang, !.exam_type = "language",
                   !.detected_language = name]

LanguageScan(r, first_page_text) ==
    LET text_lower == Lower(first_page_text) IN
    IF \E keyword \in language_keywords : HasLit(text_lower, keyword)
    THEN IF HasLit(text_lower, <<"a", "r", "a", "b", "i", "c">>) \/ HasLit(first_page_text, NativeArabic)
         THEN Detected(r, "ara+eng", "Arabic")
         ELSE IF HasLit(text_lower, <<"f", "r", "e", "n", "c", "h">>) \/ HasLit(first_page_text, NativeFrench)
         THEN Detected(r, "fra+eng", "French")
         ELSE IF HasLit(text_lower, <<"s", "p", "a", "n", "i", "s", "h">>) \/ HasLit(first_page_text, NativeSpanish)
         THEN Detected(r, "spa+eng", "Spanish")
         ELSE r
    ELSE r

MathScan(r, first_page_text) ==
    IF \E keyword \in math_keywords : HasLit(Lower(first_page_text), keyword)
    THEN [r EXCEPT !.exam_type = "math", !.needs_math_ocr = TRUE,
                        !.recommended_ocr_method = "mathpix_or_tesseract"]
    ELSE r

\* the part of detect_exam_type after the course-code rules
KeywordScan(r, first_page_text) ==
    IF first_page_text # <<>>
    THEN MathScan(LanguageScan(r, first_page_text), first_page_text)
    ELSE r

\* the language-course rule returns its config at once
LanguageReturn_FallThrough(r, first_page_text) == KeywordScan(r, first_page_text)
LanguageReturn(r, first_page_text) == r

\* None and '' are both the empty text
detect_exam_type(course_code, first_page_text) ==
    LET r == DefaultConfig
        prefix == IF course_code # <<>> THEN CoursePrefix(Upper(course_code)) ELSE <<>>
    IN  IF prefix # <<>> /\ \E li \in language_courses : li.prefix = prefix
        THEN LanguageReturn(
                 LanguageConfig(r, CHOOSE li \in language_courses : li.prefix = prefix),
                 first_page_text)
        ELSE IF prefix # <<>> /\ prefix \in math_courses
        THEN MathConfig(r)
        ELSE KeywordScan(r, first_page_text)

CourseCodes ==
    {<<>>,
     <<"A", "R", "A", "B", "1", "0", "0">>, <<"a", "r", "a", "b", "1", "0", "0">>,
     <<"F", "R", "E", "N">>, <<"S", "p", "a", "n", "2", "0", "1">>, <<"G", "E", "R", "M">>,
     <<"A", "R", "A", "B", "I", "C">>, <<"M", "A", "T", "H", "1", "0", "1">>,
     <<"s", "t", "a", "t">>, <<"P", "H", "Y", "S">>, <<"M", "A", "T", "H", "S">>,
     <<"C", "I", "S", "C", "1", "0", "1">>, <<"A", "R">>, <<"A", "1">>,
     <<"1", "0", "1", "M", "A", "T", "H">>, <<"F", "R", "E", "1", "0", "0">>,
     <<"R", "u", "s", "s">>}

FirstPageTexts ==
    {<<>>,
     <<"t", "r", "a", "n", "s", "l", "a", "t", "e", " ", "a", "r", "a", "b", "i", "c">>,
     <<"t", "r", "a", "n", "s", "l", "a", "t", "e", " ", "f", "r", "e", "n", "c", "h", " ", "x">>,
     <<"s", "p", "a", "n", "i", "s", "h", " ", "g", "r", "a", "m", "m", "a", "r">>,
     <<"v", "e", "r", "b">>, <<"c", "a", "l", "c", "u", "l", "a", "t", "e">>,
     <<"t", "r", "a", "n", "s", "l", "a", "t", "e", " ", "a", "r", "a", "b", "i", "c", " ", "e", "q", "u", "a", "t", "i", "o", "n">>,
     <<"a", "r", "a", "b", "i", "c">>, <<"F", "o", "r", "m", "u", "l", "a">>,
     <<"g", "r", "a", "m", "m", "a", "r", " ", "f", "r", "a", "n", "U+00E7", "a", "i", "s">>,
     <<"n", "o", "u", "n", " ", "U+0639", "U+0631", "U+0628", "U+064A">>,
     <<"v", "o", "c", "a", "b", "u", "l", "a", "r", "y", " ", "e", "s", "p", "a", "U+00F1", "o", "l">>,
     <<"h", "e", "l", "l", "o">>,
     <<"A", "R", "A", "B", "I", "C", " ", "G", "R", "A", "M", "M", "A", "R">>,
     <<"s", "o", "l", "v", "e", " ", "f", "o", "r", " ", "x">>,
     <<"a", "d", "v", "e", "r", "b">>,
     <<"f", "r", "e", "n", "c", "h", " ", "a", "r", "a", "b", "i", "c", " ", "p", "r", "o", "n", "o", "u", "n">>,
     <<"s", "h", "o", "w", " ", " ", "t", "h", "a", "t">>}

InitOcr ==
    /\ opc = "called"
    /\ ocode \in CourseCodes
    /\ opage \in FirstPageTexts
    /\ oconfig = NoneStr
    /\ IdleNotOcr

DetectExamType ==
    /\ opc = "called"
    /\ oconfig' = detect_exam_type(ocode, opage)
    /\ opc' = "returned"
    /\ UNCHANGED <<ocode, opage, notOcrVars>>

NextOcr == DetectExamType

SpecOcr == InitOcr /\ [][NextOcr]_vars

\* the inputs as the rules name them: the letters the course code starts with, and
\* whether the first page holds any keyword
LeadingLetters(course_code) ==
    SubSeq(Upper(course_code), 1, MinOf({4, Run(Upper(course_code), 1, UpperLetters)}))
AnyKeyword(first_page_text) ==
    \E keyword \in language_keywords \cup math_keywords :
        HasLit(Lower(first_page_text), keyword)

\* C19: a language-course prefix gives that language's config and a math-course
\* prefix the math config, whatever the first page says; with no known prefix and
\* no keyword on the first page the r is the general English default
C19_RuleOrder ==
    opc = "returned" =>
        LET p == LeadingLetters(ocode) IN
        /\ \A li \in language_courses :
               p = li.prefix =>
                   /\ oconfig.exam_type = "language"
                   /\ oconfig.ocr_language = li.lang
                   /\ oconfig.detected_language = li.language_name
                   /\ oconfig.needs_math_ocr = FALSE
        /\ p \in math_courses =>
               /\ oconfig.exam_type = "math"
               /\ oconfig.ocr_language = "eng"
               /\ oconfig.needs_math_ocr = TRUE
               /\ oconfig.detected_language = NoneStr
        /\ (/\ p \notin math_courses
            /\ \A li \in language_courses : p # li.prefix
            /\ ~AnyKeyword(opage)) =>
               /\ oconfig.exam_type = "general"
               /\ oconfig.ocr_language = "eng"
               /\ oconfig.needs_math_ocr = FALSE
               /\ oconfig.detected_language = NoneStr

\* a language course whose first page holds a math keyword has been configured
C19_Witness ==
    /\ opc = "returned"
    /\ \E li \in language_courses : LeadingLetters(ocode) = li.prefix
    /\ \E keyword \in math_keywords : HasLit(Lower(opage), keyword)
    /\ oconfig.exam_type = "language"

(***************************************************************************)
(* Text extraction engine: extract_text_from_pdf as a sequence of steps     *)
(***************************************************************************)
MsgEncrypted == "PDF is password-protected (encrypted)"
MsgCorrupted == "PDF appears to be corrupted or damaged"
MsgNotFound == "File not found"
MsgNoPdf2image == "pdf2image not installed. Cannot use OCR."
MsgNoTesseract == "pytesseract not installed. Cannot use OCR."
MsgPoppler == "Poppler path not usable"
MsgOcrEmpty == "OCR extracted no text (empty pages or OCR language issue)"
MsgOcrFailed == "OCR failed"
MsgAllFailed == "All extraction methods failed"

\* the result dict at the top of extract_text_from_pdf
EmptyResult ==
    [text |-> "", extraction_method |-> NoneStr, success |-> FALSE,
     error |-> NoneStr, error_details |-> <<>>]

\* module-level imports: pdf2image is bound (to the module or to None) only
\* when pytesseract and PIL were imported; otherwise the name is undefined
OcrImports ==
    { [pytesseract |-> TRUE, pdf2image |-> "module"],
      [pytesseract |-> TRUE, pdf2image |-> "None"],
      [pytesseract |-> FALSE, pdf2image |-> "undefined"] }

\* what a text-layer library can do with a document
PlumberOutcomes == {"encrypted_flag", "text", "empty", "raise_password", "raise_corrupt", "raise_other"}
MuPdfOutcomes == {"encrypted_flag", "text", "empty", "raise_password", "raise_corrupt", "raise_other"}
\* what the OCR branch can do once its imports are present
OcrOutcomes == {"bad_poppler_path", "text", "blank", "raise"}

MaxOcrPages == 2   \* page images of one document

\* what pytesseract.image_to_string can return for one page image
OcrPageTexts == {<<>>, <<" ", "\n">>, <<"w">>, <<" ", "w", "\n">>}

\* `if text.strip():` a page is kept when its text is more than whitespace
OcrPageKept_NoStrip(text) == text # <<>>
OcrPageKept(text) == Strip(text) # <<>>

\* `if full_text:` after the loop over the page images
OcrRead(pages) == IF SelectSeq(pages, OcrPageKept) # <<>> THEN "text" ELSE "blank"

\* what the OCR branch can do with a document whose pages read as e.ocr_pages
OcrOutcomesOf(e) == {"bad_poppler_path", "raise", OcrRead(e.ocr_pages)}

\* the position after `[A-Z]{2,}\d{3,4}` matched at i, 0 when it does not match
CodeEnd(s, i) ==
    LET n == Run(s, i, Alpha)
        k == Run(s, i + n, Digits)
    IN  IF n >= 2 /\ k >= 3 THEN i + n + (IF k > 4 THEN 4 ELSE k) ELSE 0

\* `COURSE\s*(?:CODE|NUMBER|NUM)?\s*:?\s*([A-Z]{2,}\d{3,4})` at i with the
\* optional word taken as `word` (<<>> when skipped): the span of the group
CourseLabelAt(s, i, word) ==
    LET p1 == i + 6 + Run(s, i + 6, Space)
        p2 == p1 + Len(word)
        p3 == p2 + Run(s, p2, Space)
        p4 == IF At(s, p3) = ":" THEN p3 + 1 ELSE p3
        p5 == p4 + Run(s, p4, Space)
    IN  IF LitAt(s, i, <<"c", "o", "u", "r", "s", "e">>) /\ LitAt(s, p1, word) /\ CodeEnd(s, p5) # 0
        THEN <<p5, CodeEnd(s, p5) - 1>> ELSE <<>>

\* the alternatives of the optional word in the order the regex engine tries them
CourseLabelCodeAt(s, i) ==
    IF CourseLabelAt(s, i, <<"c", "o", "d", "e">>) # <<>>
        THEN CourseLabelAt(s, i, <<"c", "o", "d", "e">>)
    ELSE IF CourseLabelAt(s, i, <<"n", "u", "m", "b", "e", "r">>) # <<>>
        THEN CourseLabelAt(s, i, <<"n", "u", "m", "b", "e", "r">>)
    ELSE IF CourseLabelAt(s, i, <<"n", "u", "m">>) # <<>>
        THEN CourseLabelAt(s, i, <<"n", "u", "m">>)
    ELSE CourseLabelAt(s, i, <<>>)

\* `([A-Z]{2,}\s*\d{3,4})` at i
StandaloneCodeAt(s, i) ==
    LET n == Run(s, i, Alpha)
        w == Run(s, i + n, Space)
        k == Run(s, i + n + w, Digits)
    IN  IF n >= 2 /\ k >= 3 THEN <<i, i + n + w + (IF k > 4 THEN 4 ELSE k) - 1>> ELSE <<>>

\* `Course:\s*([A-Z]{2,}\d{3,4})` at i
CourseColonAt(s, i) ==
    LET p == i + 7 + Run(s, i + 7, Space)
    IN  IF LitAt(s, i, <<"c", "o", "u", "r", "s", "e", ":">>) /\ CodeEnd(s, p) # 0
        THEN <<p, CodeEnd(s, p) - 1>> ELSE <<>>

\* CoverPageParser.course_code_patterns, matched with re.IGNORECASE
course_code_patterns == <<1, 2, 3>>

CoursePatternAt(pattern, s, i) ==
    CASE pattern = 1 -> CourseLabelCodeAt(s, i)
      [] pattern = 2 -> StandaloneCodeAt(s, i)
      [] pattern = 3 -> CourseColonAt(s, i)

\* re.findall(pattern, text, re.IGNORECASE | re.MULTILINE)[0], <<>> without a match
FirstCourseMatch(pattern, text) ==
    LET s == Lower(text)
        I == {i \in 1..Len(s) : CoursePatternAt(pattern, s, i) # <<>>}
    IN  IF I = {} THEN <<>>
        ELSE SubSeq(text, CoursePatternAt(pattern, s, MinOf(I))[1],
                          CoursePatternAt(pattern, s, MinOf(I))[2])

NotBlank(c) == c # " "

\* matches[0].strip().replace(' ', '').upper()
CleanCode(m) == Upper(SelectSeq(Strip(m), NotBlank))

\* re.match(r'^[A-Z]{2,}\d{3,4}$', code)
ValidCode(code) ==
    LET n == Run(code, 1, UpperLetters)
        k == Run(code, n + 1, Digits)
    IN  n >= 2 /\ k \in {3, 4} /\ n + k = Len(code)

\* CoverPageParser.extract_course_code: the patterns from `from` on
RECURSIVE CourseCodeFrom(_, _)
CourseCodeFrom(text, from) ==
    IF from > Len(course_code_patterns) THEN <<>>
    ELSE LET m == FirstCourseMatch(course_code_patterns[from], text)
         IN  IF m # <<>> /\ ValidCode(CleanCode(m)) THEN CleanCode(m)
             ELSE CourseCodeFrom(text, from + 1)

extract_course_code(text) == IF text = <<>> THEN <<>> ELSE CourseCodeFrom(text, 1)

\* "Get OCR config if not provided": the ocr_language local after the block
OcrLanguageChosen(e) ==
    IF e.use_ocr /\ e.ocr_language = NoneStr
    THEN IF e.course_code # <<>>
         THEN detect_exam_type(e.course_code, <<>>).ocr_language
         ELSE IF e.first_page # <<>> /\ extract_course_code(e.first_page) # <<>>
         THEN detect_exam_type(extract_course_code(e.first_page), e.first_page).ocr_language
         ELSE "eng"
    ELSE e.ocr_language

\* `lang = ocr_language or 'eng'`
Lang(language) == IF language = NoneStr THEN "eng" ELSE language

\* the ocr_language and course_code arguments, and what
\* CoverPageParser.extract_first_page_text returns (<<>> for None)
ExplicitLanguages == {NoneStr, "deu"}
GivenCourseCodes == {<<>>, <<"A", "R", "A", "B", "1", "0", "0">>, <<"C", "I", "S", "C", "1", "2", "1">>}
FirstPages ==
    {<<>>,
     <<"F", "i", "n", "a", "l", " ", "e", "x", "a", "m">>,
     <<"F", "R", "E", "N", " ", "2", "1", "9", " ", "F", "i", "n", "a", "l">>,
     <<"C", "o", "u", "r", "s", "e", ":", " ", "s", "p", "a", "n", "1", "0", "1", "0">>,
     <<"G", "E", "R", "M", "\n", "1", "0", "1">>}

InitExt ==
    /\ pc = "start"
    /\ \E ex \in BOOLEAN, ocr \in BOOLEAN, pl \in BOOLEAN, mu \in BOOLEAN, imp \in OcrImports :
       \E n \in 0..MaxOcrPages : \E pages \in [1..n -> OcrPageTexts] :
       \E language \in ExplicitLanguages, code \in GivenCourseCodes, first \in FirstPages :
          /\ env = [exists |-> ex, use_ocr |-> ocr, pdfplumber |-> pl, pymupdf |-> mu,
                    pytesseract |-> imp.pytesseract, pdf2image |-> imp.pdf2image,
                    ocr_pages |-> pages, ocr_language |-> language,
                    course_code |-> code, first_page |-> first]
          /\ ocr_language = language
    /\ result = EmptyResult
    /\ attempts = <<>>
    /\ IdleNotExt

\* `if not use_ocr and <library>:`
TextLayerEnabled_IgnoreOcr(e, lib) == lib
TextLayerEnabled(e, lib) == ~e.use_ocr /\ lib

\* `if use_ocr or (not result['success'] and pytesseract):`
OcrWanted(e, r) == e.use_ocr \/ (~r.success /\ e.pytesseract)

Succeed(r, method) ==
    [r EXCEPT !.text = method, !.extraction_method = method, !.success = TRUE]

\* result after the encryption check of a text-layer method fired
EncryptedReturn(r) ==
    [r EXCEPT !.error = MsgEncrypted, !.error_details = Append(@, MsgEncrypted)]

\* result after the `except Exception` handler of a text-layer method
TextLayerExcept(r, outcome, failed_msg) ==
    CASE outcome = "raise_password" ->
            [r EXCEPT !.error = MsgEncrypted, !.error_details = Append(@, MsgEncrypted)]
      [] outcome = "raise_corrupt" ->
            [r EXCEPT !.error = MsgCorrupted, !.error_details = Append(@, MsgCorrupted)]
      [] OTHER -> [r EXCEPT !.error_details = Append(@, failed_msg)]

\* one text-layer method: new result and whether the function returns
TextLayerStep(r, method, outcome, failed_msg) ==
    CASE outcome = "encrypted_flag" -> [result |-> EncryptedReturn(r), returns |-> TRUE]
      [] outcome = "text" -> [result |-> Succeed(r, method), returns |-> TRUE]
      [] outcome = "empty" -> [result |-> r, returns |-> FALSE]
      [] OTHER -> [result |-> TextLayerExcept(r, outcome, failed_msg), returns |-> FALSE]

\* `if not pdf_path.exists()`, then "Get OCR config if not provided"
Start ==
    /\ pc = "start"
    /\ IF ~env.exists
       THEN /\ result' = [result EXCEPT !.error = MsgNotFound]
            /\ pc' = "returned"
            /\ UNCHANGED ocr_language
       ELSE /\ result' = result
            /\ ocr_language' = OcrLanguageChosen(env)
            /\ pc' = "plumber"
    /\ UNCHANGED <<env, attempts, notExtVars>>

\* "Try pdfplumber first"
TryPdfplumber ==
    /\ pc = "plumber"
    /\ IF TextLayerEnabled(env, env.pdfplumber)
       THEN \E outcome \in PlumberOutcomes :
              LET step == TextLayerStep(result, "pdfplumber", outcome, "pdfplumber failed") IN
              /\ attempts' = Append(attempts, [method |-> "pdfplumber", outcome |-> outcome])
              /\ result' = step.result
              /\ pc' = IF step.returns THEN "returned" ELSE "mupdf"
       ELSE /\ pc' = "mupdf"
            /\ UNCHANGED <<result, attempts>>
    /\ UNCHANGED <<env, ocr_language, notExtVars>>

\* "Try PyMuPDF as fallback"
TryPyMuPDF ==
    /\ pc = "mupdf"
    /\ IF TextLayerEnabled(env, env.pymupdf)
       THEN \E outcome \in MuPdfOutcomes :
              LET step == TextLayerStep(result, "pymupdf", outcome, "PyMuPDF failed") IN
              /\ attempts' = Append(attempts, [method |-> "pymupdf", outcome |-> outcome])
              /\ result' = step.result
              /\ pc' = IF step.returns THEN "returned" ELSE "ocr"
       ELSE /\ pc' = "ocr"
            /\ UNCHANGED <<result, attempts>>
    /\ UNCHANGED <<env, ocr_language, notExtVars>>

\* the OCR branch once it is entered: the new result, where control goes
\* and whether the OCR engine was invoked
OcrStep(e, r, outcome) ==
    IF e.pdf2image = "undefined"
    THEN \* `if not pdf2image` on an unbound name: NameError leaves the function
         [result |-> r, pc |-> "raised", ran |-> FALSE]
    ELSE IF e.pdf2image = "None"
    THEN [result |-> [r EXCEPT !.error = MsgNoPdf2image,
                               !.error_details = Append(@, MsgNoPdf2image)],
          pc |-> "returned", ran |-> FALSE]
    ELSE IF ~e.pytesseract
    THEN [result |-> [r EXCEPT !.error = MsgNoTesseract,
                               !.error_details = Append(@, MsgNoTesseract)],
          pc |-> "returned", ran |-> FALSE]
    ELSE CASE outcome = "bad_poppler_path" ->
                 [result |-> [r EXCEPT !.error = MsgPoppler,
                                       !.error_details = Append(@, MsgPoppler)],
                  pc |-> "returned", ran |-> FALSE]
           [] outcome = "text" ->
                 [result |-> Succeed(r, "ocr"), pc |-> "final", ran |-> TRUE]
           [] outcome = "blank" ->
                 [result |-> [r EXCEPT !.success = FALSE, !.error = MsgOcrEmpty,
                                  !.error_details = Append(@, "OCR completed but no text was extracted")],
                  pc |-> "final", ran |-> TRUE]
           [] outcome = "raise" ->
                 [result |-> [r EXCEPT !.error = MsgOcrFailed,
                                       !.error_details = Append(@, MsgOcrFailed)],
                  pc |-> "final", ran |-> TRUE]

\* "Set final error if all methods failed"
FinalResult(r) ==
    IF r.success THEN r
    ELSE [r EXCEPT !.error = IF @ = NoneStr THEN MsgAllFailed ELSE @,
                   !.error_details = IF @ = <<>>
                                        THEN <<"No text could be extracted from PDF">> ELSE @]

\* "Use OCR if requested or if text extraction failed"
TryOCR ==
    /\ pc = "ocr"
    /\ IF ~OcrWanted(env, result)
       THEN /\ pc' = "final"
            /\ UNCHANGED <<result, attempts>>
       ELSE \E outcome \in OcrOutcomesOf(env) :
              LET step == OcrStep(env, result, outcome) IN
              /\ result' = step.result
              /\ pc' = step.pc
              /\ attempts' = IF step.ran
                             THEN Append(attempts, [method |-> "ocr", outcome |-> outcome])
                             ELSE attempts
    /\ UNCHANGED <<env, ocr_language, notExtVars>>

\* "Set final error if all methods failed" and return
Finish ==
    /\ pc = "final"
    /\ result' = FinalResult(result)
    /\ pc' = "returned"
    /\ UNCHANGED <<env, attempts, ocr_language, notExtVars>>

NextExt == Start \/ TryPdfplumber \/ TryPyMuPDF \/ TryOCR \/ Finish

SpecExt == InitExt /\ [][NextExt]_vars

ReportsEncrypted(a) ==
    a.method \in {"pdfplumber", "pymupdf"} /\ a.outcome \in {"encrypted_flag", "raise_password"}

\* C9: once a text-layer method reports the document as password-protected (by
\* its flag or by a raised error naming a password or encryption), the function
\* returns success = false with the encrypted error and no later method is
\* attempted.
C9_EncryptedStopsAtOnce ==
    pc = "returned" =>
        \A k \in 1..Len(attempts) :
            ReportsEncrypted(attempts[k]) =>
                /\ k = Len(attempts)
                /\ ~result.success
                /\ result.error = MsgEncrypted

MethodRank(m) == CASE m = "pdfplumber" -> 1 [] m = "pymupdf" -> 2 [] m = "ocr" -> 3

\* C10: methods are tried in the order pdfplumber, PyMuPDF, OCR and nothing is
\* tried after the first that yields text; extraction_method names that method;
\* with use_ocr no text-layer method is tried and a success is by 'ocr'.
C10_OrderedFallback ==
    /\ \A j \in 1..Len(attempts), k \in 1..Len(attempts) :
          j < k => /\ MethodRank(attempts[j].method) < MethodRank(attempts[k].method)
                   /\ attempts[j].outcome # "text"
    /\ env.use_ocr => \A k \in 1..Len(attempts) : attempts[k].method = "ocr"
    /\ pc = "returned" =>
          /\ result.success <=> (\E k \in 1..Len(attempts) : attempts[k].outcome = "text")
          /\ result.success => result.extraction_method = attempts[Len(attempts)].method
          /\ ~result.success => result.extraction_method = NoneStr
          /\ (env.use_ocr /\ result.success) => result.extraction_method = "ocr"

C10_Witness ==
    /\ pc = "returned"
    /\ ~env.use_ocr
    /\ Len(attempts) = 3
    /\ attempts[1] = [method |-> "pdfplumber", outcome |-> "empty"]
    /\ attempts[2] = [method |-> "pymupdf", outcome |-> "raise_other"]
    /\ attempts[3] = [method |-> "ocr", outcome |-> "text"]
    /\ result.success /\ result.extraction_method = "ocr"

\* the page-rasterization module or the OCR engine binding is not available
DependencyMissing(e) == e.pdf2image # "module" \/ ~e.pytesseract

\* no text-layer method ended the call (by text or by the encryption check)
TextLayersFailed ==
    \A k \in 1..Len(attempts) :
        attempts[k].method \in {"pdfplumber", "pymupdf"} =>
            attempts[k].outcome \notin {"text", "encrypted_flag"}

\* C12: when OCR is required (use_ocr, or no text-layer method produced text)
\* and pdf2image or pytesseract is unavailable, the call returns success =
\* false with an error naming the missing dependency; it does not raise and
\* the OCR engine is not invoked.
C12_MissingDependencyReported ==
    (/\ pc \in {"returned", "raised"}
     /\ env.exists
     /\ DependencyMissing(env)
     /\ env.use_ocr \/ TextLayersFailed) =>
        /\ pc = "returned"
        /\ ~result.success
        /\ result.error \in {MsgNoPdf2image, MsgNoTesseract}
        /\ \A k \in 1..Len(attempts) : attempts[k].method # "ocr"

\* the entries a failing method can append to error_details
CausesOf(method) ==
    CASE method = "pdfplumber" -> {"pdfplumber failed", MsgEncrypted, MsgCorrupted}
      [] method = "pymupdf" -> {"PyMuPDF failed", MsgEncrypted, MsgCorrupted}
      [] method = "ocr" -> {MsgOcrFailed, "OCR completed but no text was extracted"}

AllThreeFailed ==
    /\ pc = "returned"
    /\ Len(attempts) = 3
    /\ \A k \in 1..3 : attempts[k].outcome \notin {"text", "encrypted_flag"}

\* C13: when pdfplumber, PyMuPDF and OCR were all attempted and all failed,
\* error_details holds a cause for each of the three, in attempt order.
C13_EveryFailureRecorded ==
    AllThreeFailed =>
        /\ Len(result.error_details) >= 3
        /\ \A k \in 1..3 : result.error_details[k] \in CausesOf(attempts[k].method)

(***************************************************************************)
(* Batch run: extract_all_exams over the to-process folder, then            *)
(* parse_extracted_text_to_questions over the file it saved                 *)
(***************************************************************************)
MaxBatch == 2

\* extract_text_from_pdf on an existing file, as one call: the libraries act on
\* the document as doc.plumber, doc.mupdf and doc.ocr say
extract_text_from_pdf(e, doc) ==
    LET a == IF TextLayerEnabled(e, e.pdfplumber)
             THEN TextLayerStep(EmptyResult, "pdfplumber", doc.plumber, "pdfplumber failed")
             ELSE [result |-> EmptyResult, returns |-> FALSE]
        b == IF a.returns THEN a
             ELSE IF TextLayerEnabled(e, e.pymupdf)
             THEN TextLayerStep(a.result, "pymupdf", doc.mupdf, "PyMuPDF failed")
             ELSE a
        c == IF b.returns THEN [result |-> b.result, pc |-> "returned"]
             ELSE IF OcrWanted(e, b.result) THEN OcrStep(e, b.result, doc.ocr)
             ELSE [result |-> b.result, pc |-> "final"]
    IN IF c.pc = "final" THEN [raised |-> FALSE, result |-> FinalResult(c.result)]
       ELSE [raised |-> c.pc = "raised", result |-> c.result]

\* a PDF of the folder: what each library does with it and what its text
\* holds (short: under 100 characters; units: the questions segmentation finds)
Pdf(pl, mu, ocr, short, units) ==
    [plumber |-> pl, mupdf |-> mu, ocr |-> ocr, short |-> short, units |-> units]

BatchDocs ==
    { Pdf("text", "text", "text", FALSE, 2),
      Pdf("text", "text", "text", FALSE, 0),
      Pdf("text", "text", "text", TRUE, 0),
      Pdf("empty", "text", "text", FALSE, 1),
      Pdf("empty", "empty", "text", FALSE, 2),
      Pdf("encrypted_flag", "encrypted_flag", "raise", FALSE, 0),
      Pdf("raise_corrupt", "raise_corrupt", "raise", FALSE, 0),
      Pdf("empty", "empty", "blank", FALSE, 0) }

NoExtractions ==
    [extractions |-> <<>>,
     stats |-> [total_pdfs |-> 0, successful |-> 0, failed |-> 0, used_ocr |-> 0]]

NoAnalysis ==
    [exams |-> <<>>,
     stats |-> [total_exams |-> 0, total_questions |-> 0, exams_parsed |-> 0, exams_failed |-> 0]]

\* extract_all_exams up to the for-loop: a non-empty folder, the stats reset
InitBatch ==
    /\ bpc = "extracting"
    /\ \E ocr \in BOOLEAN, pl \in BOOLEAN, mu \in BOOLEAN, imp \in OcrImports :
          benv = [exists |-> TRUE, use_ocr |-> ocr, pdfplumber |-> pl, pymupdf |-> mu,
                  pytesseract |-> imp.pytesseract, pdf2image |-> imp.pdf2image]
    /\ \E n \in 1..MaxBatch : pdf_files \in [1..n -> BatchDocs]
    /\ bnext = 1
    /\ results = [NoExtractions EXCEPT !.stats.total_pdfs = Len(pdf_files)]
    /\ analysis = NoAnalysis
    /\ IdleNotBatch

\* the entry of results['extractions'] for a document
ExtractionData(k, doc, r) ==
    IF r.success
    THEN [filename |-> k, success |-> NoneStr, extraction_method |-> r.extraction_method,
          has_text |-> TRUE, error |-> NoneStr, error_details |-> <<>>]
    ELSE [filename |-> k, success |-> "False", extraction_method |-> NoneStr,
          has_text |-> FALSE, error |-> r.error, error_details |-> r.error_details]

\* one iteration of `for pdf_path in pdf_files`; an exception of
\* extract_text_from_pdf is not caught and leaves extract_all_exams
ExtractNext ==
    /\ bpc = "extracting"
    /\ bnext <= Len(pdf_files)
    /\ LET x == extract_text_from_pdf(benv, pdf_files[bnext])
           r == x.result
       IN IF x.raised
          THEN /\ bpc' = "aborted"
               /\ UNCHANGED <<bnext, results>>
          ELSE /\ bpc' = bpc
               /\ bnext' = bnext + 1
               /\ results' =
                    [results EXCEPT
                       !.extractions = Append(@, ExtractionData(bnext, pdf_files[bnext], r)),
                       !.stats.successful = IF r.success THEN @ + 1 ELSE @,
                       !.stats.used_ocr = IF r.success /\ r.extraction_method = "ocr"
                                             THEN @ + 1 ELSE @,
                       !.stats.failed = IF r.success THEN @ ELSE @ + 1]
    /\ UNCHANGED <<benv, pdf_files, analysis, notBatchVars>>

\* "Save results": extracted_text.json is written after the loop
SaveExtractions ==
    /\ bpc = "extracting"
    /\ bnext > Len(pdf_files)
    /\ bpc' = "saved"
    /\ UNCHANGED <<benv, pdf_files, bnext, results, analysis, notBatchVars>>

\* parse_extracted_text_to_questions: load extracted_text.json
LoadExtractions ==
    /\ bpc = "saved"
    /\ bpc' = "parsing"
    /\ bnext' = 1
    /\ UNCHANGED <<benv, pdf_files, results, analysis, notBatchVars>>

\* one iteration of `for extraction in data.get('extractions', [])`
ParseNext ==
    /\ bpc = "parsing"
    /\ bnext <= Len(results.extractions)
    /\ LET extraction == results.extractions[bnext]
           doc == pdf_files[extraction.filename]
           skipped == ~extraction.has_text \/ doc.short
       IN analysis' =
            IF skipped \/ doc.units = 0
            THEN [analysis EXCEPT !.stats.exams_failed = @ + 1]
            ELSE [analysis EXCEPT
                    !.exams = Append(@, [filename |-> extraction.filename,
                                         question_count |-> doc.units]),
                    !.stats.total_exams = @ + 1,
                    !.stats.total_questions = @ + doc.units,
                    !.stats.exams_parsed = @ + 1]
    /\ bnext' = bnext + 1
    /\ UNCHANGED <<bpc, benv, pdf_files, results, notBatchVars>>

\* "Save results": exam_analysis.json is written after the loop
SaveAnalysis ==
    /\ bpc = "parsing"
    /\ bnext > Len(results.extractions)
    /\ bpc' = "parsed"
    /\ UNCHANGED <<benv, pdf_files, bnext, results, analysis, notBatchVars>>

NextBatch == ExtractNext \/ SaveExtractions \/ LoadExtractions \/ ParseNext \/ SaveAnalysis

SpecBatch == InitBatch /\ [][NextBatch]_vars

\* C11: a batch run is never stopped by a failing document: the run does not
\* abort, every document gets an entry in document order, a failed document
\* is recorded with success = false and its error, successful + failed is the
\* size of the batch, and only successfully extracted documents have an exam.
C11_BatchNeverStops ==
    /\ bpc # "aborted"
    /\ bpc \in {"saved", "parsing", "parsed"} =>
          /\ Len(results.extractions) = Len(pdf_files)
          /\ results.stats.successful + results.stats.failed = Len(pdf_files)
          /\ \A k \in 1..Len(pdf_files) :
                LET r == extract_text_from_pdf(benv, pdf_files[k]).result IN
                /\ results.extractions[k].filename = k
                /\ ~r.success => /\ results.extractions[k].success = "False"
                                 /\ results.extractions[k].error = r.error
    /\ bpc = "parsed" =>
          \A m \in 1..Len(analysis.exams) :
              results.extractions[analysis.exams[m].filename].has_text

(***************************************************************************)
(* Cover page parser: total marks                                          *)
(***************************************************************************)
MaxCoverLines == 2   \* lines of the cover page text

\* the position after (\d+(?:\.\d+)?) matched at i, 0 when there is no digit at i
NumberEnd(s, i) ==
    LET d == Run(s, i, Digits)
        f == Run(s, i + d + 1, Digits)
    IN  IF d = 0 THEN 0
        ELSE IF At(s, i + d) = "." /\ f >= 1 THEN i + d + 1 + f
        ELSE i + d

\* the position after `word` with an optional s matched at i, 0 when it does not match
WordEnd(s, i, word) ==
    IF ~LitAt(s, i, word) THEN 0
    ELSE IF At(s, i + Len(word)) = "s" THEN i + Len(word) + 1
    ELSE i + Len(word)

\* the position after \s+ matched at i, 0 when there is no whitespace at i
SpacesEnd(s, i) == IF i >= 1 /\ Run(s, i, Space) >= 1 THEN i + Run(s, i, Space) ELSE 0

\* the position after \s*:?\s* matched at i
ColonEnd(s, i) ==
    LET j == i + Run(s, i, Space) IN
    IF At(s, j) = ":" THEN j + 1 + Run(s, j + 1, Space) ELSE j

\* TOTAL\s+MARKS?\s*:?\s*(\d+(?:\.\d+)?) at i of the lower-cased text: the span of
\* the group as <<from, to>>, <<>> when it does not match
TotalMarksAt(s, i) ==
    LET w == WordEnd(s, SpacesEnd(s, IF LitAt(s, i, <<"t", "o", "t", "a", "l">>) THEN i + 5 ELSE 0), <<"m", "a", "r", "k">>)
        n == IF w = 0 THEN 0 ELSE ColonEnd(s, w)
    IN  IF w # 0 /\ NumberEnd(s, n) # 0 THEN <<n, NumberEnd(s, n) - 1>> ELSE <<>>

\* (\d+(?:\.\d+)?)\s+word s?\s+total at i
NumberWordTotalAt(s, i, word) ==
    LET n == NumberEnd(s, i)
        w == IF n = 0 THEN 0 ELSE WordEnd(s, SpacesEnd(s, n), word)
        t == IF w = 0 THEN 0 ELSE SpacesEnd(s, w)
    IN  IF t # 0 /\ LitAt(s, t, <<"t", "o", "t", "a", "l">>) THEN <<i, n - 1>> ELSE <<>>

\* Total:\s*(\d+(?:\.\d+)?)\s+marks? at i
TotalColonAt(s, i) ==
    LET b == IF LitAt(s, i, <<"t", "o", "t", "a", "l", ":">>) THEN i + 6 + Run(s, i + 6, Space) ELSE 0
        n == IF b = 0 THEN 0 ELSE NumberEnd(s, b)
    IN  IF n # 0 /\ WordEnd(s, SpacesEnd(s, n), <<"m", "a", "r", "k">>) # 0 THEN <<b, n - 1>> ELSE <<>>

\* CoverPageParser.total_marks_patterns, in order, matched with re.IGNORECASE
total_marks_patterns == 1..5
PatternAt(pattern, s, i) ==
    CASE pattern = 1 -> TotalMarksAt(s, i)
      [] pattern = 2 -> TotalMarksAt(s, i)
      [] pattern = 3 -> NumberWordTotalAt(s, i, <<"m", "a", "r", "k">>)
      [] pattern = 4 -> TotalColonAt(s, i)
      [] pattern = 5 -> NumberWordTotalAt(s, i, <<"p", "o", "i", "n", "t">>)

\* re.findall(pattern, text, re.IGNORECASE | re.MULTILINE)[0]: the group of the
\* leftmost match, <<>> when matches is empty
FirstMatch(pattern, text) ==
    LET s == Lower(text)
        I == {i \in 1..Len(s) : PatternAt(pattern, s, i) # <<>>}
    IN  IF I = {} THEN <<>>
        ELSE SubSeq(text, PatternAt(pattern, s, MinOf(I))[1], PatternAt(pattern, s, MinOf(I))[2])

RECURSIVE TenTo(_)
TenTo(k) == IF k = 0 THEN 1 ELSE 10 * TenTo(k - 1)

\* the digits after the point, without trailing zeros
RECURSIVE Significant(_)
Significant(ds) ==
    IF ds # <<>> /\ ds[Len(ds)] = "0" THEN Significant(SubSeq(ds, 1, Len(ds) - 1)) ELSE ds

\* float() of a matched numeral, as the fraction num / den with den a power of ten
float(numeral) ==
    LET d == Run(numeral, 1, Digits)
        frac == Significant(SubSeq(numeral, d + 2, Len(numeral)))
    IN  [num |-> IntOf(SubSeq(numeral, 1, d)) * TenTo(Len(frac)) + IntOf(frac),
         den |-> TenTo(Len(frac))]

\* 10 <= marks <= 300
SanityCheck_Off(marks) == TRUE
SanityCheck(marks) == 10 * marks.den <= marks.num /\ marks.num <= 300 * marks.den

RECURSIVE TryPatterns(_, _)
TryPatterns(text, pattern) ==
    IF pattern \notin total_marks_patterns THEN NoneNum
    ELSE IF FirstMatch(pattern, text) # <<>> /\ SanityCheck(float(FirstMatch(pattern, text)))
    THEN Some(float(FirstMatch(pattern, text)))
    ELSE TryPatterns(text, pattern + 1)

extract_total_marks(text) == IF text = <<>> THEN NoneNum ELSE TryPatterns(text, 1)

CoverLines ==
    {<<"T", "O", "T", "A", "L", " ", "M", "A", "R", "K", "S", ":", " ", "1", "0", "0">>,
     <<"T", "o", "t", "a", "l", " ", "m", "a", "r", "k", "s", " ", "5">>,
     <<"t", "o", "t", "a", "l", " ", "m", "a", "r", "k", ":", "3", "5", "0">>,
     <<"T", "o", "t", "a", "l", " ", "m", "a", "r", "k", "s", ":", " ", "3", "0", "0", ".", "5">>,
     <<"T", "o", "t", "a", "l", " ", " ", "M", "a", "r", "k", "s", " ", ":", " ", " ", "1", "0", ".", "0">>,
     <<"9", ".", "5", " ", "m", "a", "r", "k", "s", " ", "t", "o", "t", "a", "l">>,
     <<"1", "2", "0", " ", "m", "a", "r", "k", " ", "t", "o", "t", "a", "l">>,
     <<"T", "o", "t", "a", "l", ":", " ", "5", "0", " ", "m", "a", "r", "k", "s">>,
     <<"T", "o", "t", "a", "l", ":", " ", "5", "0", " ", "p", "o", "i", "n", "t", "s">>,
     <<"8", "0", " ", "p", "o", "i", "n", "t", "s", " ", "t", "o", "t", "a", "l">>,
     <<"5", " ", "p", "o", "i", "n", "t", " ", "t", "o", "t", "a", "l">>,
     <<"1", ".", "2", ".", "5", " ", "m", "a", "r", "k", "s", " ", "t", "o", "t", "a", "l">>,
     <<"T", "O", "T", "A", "L", "M", "A", "R", "K", "S", " ", "5", "0">>,
     <<"T", "i", "m", "e", ":", " ", "3", " ", "h", "o", "u", "r", "s">>}

RECURSIVE JoinLines(_)
JoinLines(ls) ==
    IF ls = <<>> THEN <<>>
    ELSE IF Len(ls) = 1 THEN ls[1]
    ELSE ls[1] \o <<"\n">> \o JoinLines(Tail(ls))

InitCover ==
    /\ cvpc = "called"
    /\ \E n \in 0..MaxCoverLines : \E ls \in [1..n -> CoverLines] : cvtext = JoinLines(ls)
    /\ cvmarks = NoneNum
    /\ IdleNotCover

ExtractTotalMarks ==
    /\ cvpc = "called"
    /\ cvmarks' = extract_total_marks(cvtext)
    /\ cvpc' = "returned"
    /\ UNCHANGED <<cvtext, notCoverVars>>

NextCover == ExtractTotalMarks

SpecCover == InitCover /\ [][NextCover]_vars

\* the value the first match of a pattern stands for is within [10, 300]
Passes(pattern) ==
    /\ FirstMatch(pattern, cvtext) # <<>>
    /\ LET v == float(FirstMatch(pattern, cvtext)) IN
       v.num >= 10 * v.den /\ v.num <= 300 * v.den

\* C20: the total returned is null or within [10, 300]; it is the value matched by
\* the earliest pattern whose first match is within the range, as matched and not
\* clamped, and null when no pattern has such a match
C20_TotalNullOrInRange ==
    cvpc = "returned" =>
        /\ cvmarks # NoneNum =>
               /\ cvmarks[1].num >= 10 * cvmarks[1].den
               /\ cvmarks[1].num <= 300 * cvmarks[1].den
        /\ \A p \in total_marks_patterns :
               (Passes(p) /\ \A q \in 1..(p - 1) : ~Passes(q)) =>
                   cvmarks = Some(float(FirstMatch(p, cvtext)))
        /\ (\A p \in total_marks_patterns : ~Passes(p)) => cvmarks = NoneNum

\* the first pattern matched a value outside the range, which was discarded, and a
\* later pattern supplied the total
C20_Witness ==
    /\ cvpc = "returned"
    /\ FirstMatch(1, cvtext) # <<>> /\ ~Passes(1)
    /\ cvmarks # NoneNum

(***************************************************************************)
(* Question parser: segmentation of the exam text                          *)
(***************************************************************************)
MaxSegLines == 2   \* lines of the exam text

\* str.split(sep)
RECURSIVE SplitOn(_, _)
SplitOn(s, sep) ==
    LET I == {i \in 1..Len(s) : LitAt(s, i, sep)} IN
    IF I = {} THEN <<s>>
    ELSE <<SubSeq(s, 1, MinOf(I) - 1)>> \o SplitOn(SubSeq(s, MinOf(I) + Len(sep), Len(s)), sep)

\* re.match(r'^\d+\s*$', line.strip())
IsPageNumber(line) == Strip(line) # <<>> /\ Run(Strip(line), 1, Digits) = Len(Strip(line))

Headers ==
    {<<"Q", "U", "E", "E", "N", "'", "S", " ", "U", "N", "I", "V", "E", "R", "S", "I", "T", "Y">>,
     <<"F", "I", "N", "A", "L", " ", "E", "X", "A", "M", "I", "N", "A", "T", "I", "O", "N">>,
     <<"F", "A", "C", "U", "L", "T", "Y", " ", "O", "F">>,
     <<"I", "N", "S", "T", "R", "U", "C", "T", "I", "O", "N", "S", " ", "T", "O", " ", "S", "T", "U", "D", "E", "N", "T", "S">>,
     <<"A", "N", "S", "W", "E", "R", " ", "A", "L", "L", " ", "Q", "U", "E", "S", "T", "I", "O", "N", "S">>}

_clean_text(text) ==
    LET Kept(line) == ~IsPageNumber(line) /\ ~\E header \in Headers : HasLit(line, header)
    IN  JoinLines(SelectSeq(SplitOn(text, <<"\n">>), Kept))

\* ^ with re.MULTILINE
LineStart(s, i) == i = 1 \/ At(s, i - 1) = "\n"

\* pattern1, (?=^(\d+)\.\s+), at i
Pattern1At(s, i) ==
    LET d == Run(s, i, Digits) IN
    LineStart(s, i) /\ d >= 1 /\ At(s, i + d) = "." /\ At(s, i + d + 1) \in Space

\* pattern2, (?=^([IVX]+)\.\s+), at i
Pattern2At(s, i) ==
    LET d == Run(s, i, RomanUpper) IN
    LineStart(s, i) /\ d >= 1 /\ At(s, i + d) = "." /\ At(s, i + d + 1) \in Space

\* text[start:end].strip() for each match, end being the start of the next match
Spans(text, matches) ==
    [i \in 1..Cardinality(matches) |->
        Strip(SubSeq(text, KthSmallest(matches, i),
                     IF i < Cardinality(matches) THEN KthSmallest(matches, i + 1) - 1
                     ELSE Len(text)))]

\* "Minimum length filter"
LongEnough(split) == Len(split.text) > 20

NumberedSplits(text, matches) ==
    SelectSeq([i \in 1..Cardinality(matches) |->
                  [text |-> Spans(text, matches)[i],
                   number |-> Some(IntOf(SubSeq(text, KthSmallest(matches, i),
                                  KthSmallest(matches, i) - 1
                                  + Run(text, KthSmallest(matches, i), Digits))))]],
              LongEnough)

RomanSplits(text, matches) ==
    SelectSeq([i \in 1..Cardinality(matches) |->
                  [text |-> Spans(text, matches)[i],
                   number |-> Some(roman_to_int(SubSeq(text, KthSmallest(matches, i),
                                  KthSmallest(matches, i) - 1
                                  + Run(text, KthSmallest(matches, i), RomanUpper))))]],
              LongEnough)

ParagraphKeywords ==
    {<<"?">>, <<"a", "n", "s", "w", "e", "r">>, <<"e", "x", "p", "l", "a", "i", "n">>,
     <<"c", "a", "l", "c", "u", "l", "a", "t", "e">>,
     <<"d", "e", "s", "c", "r", "i", "b", "e">>, <<"d", "i", "s", "c", "u", "s", "s">>}

QuestionLike(split) ==
    /\ Len(split.text) > 50
    /\ \E keyword \in ParagraphKeywords : HasLit(Lower(split.text), keyword)

ParagraphFallback(text) ==
    LET paragraphs == SplitOn(text, <<"\n", "\n">>) IN
    SelectSeq([i \in 1..Len(paragraphs) |-> [text |-> Strip(paragraphs[i]), number |-> Some(i)]],
              QuestionLike)

\* the numbered split is taken with two or more matches of pattern1
NumberedChosen(matches) == Cardinality(matches) >= 2

question_splits(text) ==
    LET matches1 == {i \in 1..Len(text) : Pattern1At(text, i)}
        matches2 == {i \in 1..Len(text) : Pattern2At(text, i)}
    IN  IF NumberedChosen(matches1) THEN NumberedSplits(text, matches1)
        ELSE IF Cardinality(matches2) >= 2 THEN RomanSplits(text, matches2)
        ELSE ParagraphFallback(text)

\* "Convert to question objects"
RECURSIVE QuestionObjects(_, _)
QuestionObjects(splits, question_num) ==
    IF splits = <<>> THEN <<>>
    ELSE LET q_text == Head(splits).text
             q_num == IF Head(splits).number # NoneNum /\ Head(splits).number # Some(0)
                      THEN Head(splits).number[1] ELSE question_num
         IN  <<[question_number |-> q_num,
                text |-> q_text,
                question_type |-> detect_question_type(q_text, Some(Len(q_text))),
                length |-> Len(q_text),
                question_marks |-> extract_question_marks(q_text),
                topics |-> <<>>,
                difficulty_score |-> NoneNum]>>
             \o QuestionObjects(Tail(splits), q_num + 1)

extract_questions_from_text(text) == QuestionObjects(question_splits(_clean_text(text)), 1)

ExamLines ==
    {<<"1", ".", " ", "E", "x", "p", "l", "a", "i", "n", " ", "t", "h", "e", " ", "f", "i", "r", "s", "t", " ", "t", "h", "i", "n", "g">>,
     <<"2", ".", " ", "D", "e", "s", "c", "r", "i", "b", "e", " ", "t", "h", "e", " ", "s", "e", "c", "o", "n", "d", " ", "o", "n", "e">>,
     <<"Q", "u", "e", "s", "t", "i", "o", "n", " ", "1", " ", "e", "x", "p", "l", "a", "i", "n", " ", "a", " ", "t", "h", "i", "n", "g">>,
     <<"Q", "u", "e", "s", "t", "i", "o", "n", " ", "2", " ", "d", "i", "s", "c", "u", "s", "s", " ", "a", " ", "t", "h", "i", "n", "g">>,
     <<"Q", "1", ".", " ", "e", "x", "p", "l", "a", "i", "n", " ", "t", "h", "e", " ", "f", "i", "r", "s", "t", " ", "t", "h", "i", "n", "g">>,
     <<"Q", "2", ".", " ", "w", "h", "a", "t", " ", "i", "s", " ", "t", "h", "e", " ", "s", "e", "c", "o", "n", "d", " ", "o", "n", "e", "?">>,
     <<"1", ")", " ", "c", "a", "l", "c", "u", "l", "a", "t", "e", " ", "t", "h", "e", " ", "f", "i", "r", "s", "t", " ", "o", "n", "e">>,
     <<"2", ")", " ", "a", "n", "s", "w", "e", "r", " ", "t", "h", "e", " ", "s", "e", "c", "o", "n", "d", " ", "t", "h", "i", "n", "g">>,
     <<"I", ".", " ", "E", "x", "p", "l", "a", "i", "n", " ", "t", "h", "e", " ", "f", "i", "r", "s", "t", " ", "t", "h", "i", "n", "g">>,
     <<"I", "V", ".", " ", "D", "e", "s", "c", "r", "i", "b", "e", " ", "t", "h", "e", " ", "f", "o", "u", "r", "t", "h", " ", "o", "n", "e">>,
     <<>>, <<"1", "2">>}

InitSeg ==
    /\ spc = "called"
    /\ \E n \in 0..MaxSegLines : \E ls \in [1..n -> ExamLines] : stext = JoinLines(ls)
    /\ squestions = <<>>
    /\ IdleNotSeg

ExtractQuestionsFromText ==
    /\ spc = "called"
    /\ squestions' = extract_questions_from_text(stext)
    /\ spc' = "returned"
    /\ UNCHANGED <<stext, notSegVars>>

NextSeg == ExtractQuestionsFromText

SpecSeg == InitSeg /\ [][NextSeg]_vars

\* QuestionParser.question_patterns: the marker of a family at a line start
NumericFamilies == {"N.", "Question N", "QN.", "N)"}
MarkerAt(family, s, i) ==
    LET d == Run(s, i, Digits)
        r == Run(s, i, RomanUpper)
    IN  /\ LineStart(s, i)
        /\ CASE family = "N." -> d >= 1 /\ At(s, i + d) = "." /\ At(s, i + d + 1) \in Space
             [] family = "Question N" ->
                    /\ LitAt(s, i, <<"Q", "u", "e", "s", "t", "i", "o", "n">>)
                    /\ Run(s, i + 8, Space) >= 1
                    /\ At(s, i + 8 + Run(s, i + 8, Space)) \in Digits
             [] family = "QN." ->
                    /\ At(s, i) = "Q" /\ Run(s, i + 1, Digits) >= 1
                    /\ At(s, i + 1 + Run(s, i + 1, Digits)) = "."
             [] family = "N)" -> d >= 1 /\ At(s, i + d) = ")" /\ At(s, i + d + 1) \in Space
             [] family = "Roman" -> r >= 1 /\ At(s, i + r) = "." /\ At(s, i + r + 1) \in Space
Markers(family, s) == {i \in 1..Len(s) : MarkerAt(family, s, i)}

\* the unit texts a split at the given markers yields
UnitsAt(s, matches) ==
    LET Long(t) == Len(t) > 20 IN SelectSeq(Spans(s, matches), Long)

\* C18: when a numeric marker family has two or more markers the units are the
\* text cut at the markers of such a family; the Roman split is taken only when
\* no numeric family has two markers, and the paragraph split only when the Roman
\* markers are fewer than two as well
C18_FamilyWithTwoMatchesSplits ==
    spc = "returned" =>
        LET s == _clean_text(stext)
            units == [i \in 1..Len(squestions) |-> squestions[i].text]
            numeric == {f \in NumericFamilies : Cardinality(Markers(f, s)) >= 2}
        IN  /\ numeric # {} => \E f \in numeric : units = UnitsAt(s, Markers(f, s))
            /\ (numeric = {} /\ Cardinality(Markers("Roman", s)) >= 2) =>
                   units = UnitsAt(s, Markers("Roman", s))
            /\ (numeric = {} /\ Cardinality(Markers("Roman", s)) < 2) =>
                   \A i \in 1..Len(units) : Len(units[i]) > 50

(***************************************************************************)
(* The stages that read the corpus file exam_analysis.json                 *)
(***************************************************************************)
MaxExams == 2   \* exams in the corpus file

\* a question as parse_extracted_text_to_questions writes it; the keys a later
\* stage adds are at the value .get() gives when they are absent
ParsedQuestion(q_num, q_text) ==
    [question_number |-> q_num,
     text |-> q_text,
     question_type |-> detect_question_type(q_text, Some(Len(q_text))),
     length |-> Len(q_text),
     question_marks |-> extract_question_marks(q_text),
     difficulty_score |-> NoneNum,
     is_sub_question |-> FALSE,
     parent_question_number |-> NoneNum]

ParsedExam(filename, cover, exam_questions) ==
    [filename |-> filename, total_marks_from_cover |-> cover, questions |-> exam_questions]

CorpusExams ==
    { ParsedExam("A100.pdf", NoneNum,
        <<ParsedQuestion(1, <<"1", ".", " ", "E", "x", "p", "l", "a", "i", "n", " ", "t", "h", "e", " ", "f", "i", "r", "s", "t", " ", "t", "h", "i", "n", "g">>),
           ParsedQuestion(2, <<"2", ".", " ", "D", "e", "s", "c", "r", "i", "b", "e", " ", "t", "h", "e", " ", "s", "e", "c", "o", "n", "d", " ", "o", "n", "e">>)>>),
      ParsedExam("B100.pdf", NoneNum,
        <<ParsedQuestion(1, <<"1", ".", " ", "E", "x", "p", "l", "a", "i", "n", " ", "t", "h", "e", " ", "f", "i", "r", "s", "t", " ", "t", "h", "i", "n", "g">>)>>),
      ParsedExam("C100.pdf", NoneNum,
        <<ParsedQuestion(1, <<"1", ".", " ", "E", "x", "p", "l", "a", "i", "n", " ", "t", "h", "e", " ", "f", "i", "r", "s", "t", " ", "t", "h", "i", "n", "g", ".">>),
           ParsedQuestion(3, <<"3", ".", " ", "C", "a", "l", "c", "u", "l", "a", "t", "e", " ", "t", "h", "e", " ", "s", "u", "m", " ", "(", "1", "0", ")">>)>>),
      ParsedExam("D100.pdf", NoneNum,
        <<ParsedQuestion(3, <<"3", ".", " ", "C", "a", "l", "c", "u", "l", "a", "t", "e", " ", "t", "h", "e", " ", "s", "u", "m", " ", "(", "1", "0", ")">>),
           ParsedQuestion(2, <<"a", ")", " ", "f", "i", "n", "d", " ", "t", "h", "e", " ", "v", "a", "l", "u", "e", " ", "o", "f", " ", "x", " ", "(", "5", ")">>)>>),
      ParsedExam("E100.pdf", NoneNum, <<>>),
      ParsedExam("F100.pdf", Some(100),
        <<ParsedQuestion(2, <<"2", ".", " ", "D", "e", "s", "c", "r", "i", "b", "e", " ", "t", "h", "e", " ", "s", "e", "c", "o", "n", "d", " ", "o", "n", "e">>)>>) }

\* the two shapes of the file, and a file with neither key
ExamsShape(exams) == [key |-> "exams", items |-> exams]
QuestionsShape(flat) == [key |-> "questions", items |-> flat]
NeitherShape == [key |-> "none", items |-> <<>>]

InitCorpus ==
    /\ kpc = "loaded"
    /\ \/ \E n \in 1..MaxExams : \E exams \in [1..n -> CorpusExams] : kdata = ExamsShape(exams)
       \/ \E exam \in CorpusExams : kdata = QuestionsShape(exam.questions)
       \/ kdata = NeitherShape
    /\ kstage = NoneStr
    /\ kreturn = NoneStr
    /\ kfile = <<>>
    /\ kcleaned = <<>>
    /\ IdleNotCorpus

\* "Error: Expected ... key in JSON": return {} (or []) with nothing written
Rejected == [rejected |-> TRUE, exams_processed |-> 0]
Accepted(n) == [rejected |-> FALSE, exams_processed |-> n]

\* exams_list: the file's exams, or the flat list as one synthetic exam
exams_list(data) ==
    IF data.key = "exams" THEN data.items
    ELSE <<ParsedExam("unknown", NoneNum, data.items)>>

\* exams whose question list is not empty ("if not questions: continue")
ExamsWithQuestions(exams) == Cardinality({i \in 1..Len(exams) : exams[i].questions # <<>>})

\* json.dump(data): the loop's `exam['questions'] = updated_questions` reaches data
\* through data['exams']; the synthetic exam of the flat shape is not part of data
Dumped(data, updated_exams) ==
    IF data.key = "exams" THEN [data EXCEPT !.items = updated_exams] ELSE data

\* detect_sub_questions_in_data
DetectSubQuestionsInData ==
    /\ kpc = "loaded"
    /\ kstage' = "sub_questions"
    /\ IF kdata.key \in {"exams", "questions"}
       THEN LET updated == [i \in 1..Len(exams_list(kdata)) |->
                               [exams_list(kdata)[i] EXCEPT !.questions = detect_sub_questions(@)]]
            IN  /\ kfile' = <<Dumped(kdata, updated)>>
                /\ kreturn' = Accepted(ExamsWithQuestions(exams_list(kdata)))
       ELSE kfile' = <<>> /\ kreturn' = Rejected
    /\ kpc' = "done"
    /\ UNCHANGED <<kdata, kcleaned, notCorpusVars>>

\* QuestionTypeDetector.detect_question_types_batch
detect_question_types_batch(qs) ==
    [i \in 1..Len(qs) |->
        LET text == qs[i].text
            length == IF qs[i].length # 0 THEN qs[i].length ELSE Len(text)
            current_type == qs[i].question_type
        IN  IF current_type = "other" \/ current_type = ""
            THEN [qs[i] EXCEPT !.question_type = detect_question_type(text, Some(length))]
            ELSE qs[i]]

\* the keys detect_question_types_in_data takes
TypeStageKeys == {"exams"}

\* detect_question_types_in_data
DetectQuestionTypesInData ==
    /\ kpc = "loaded"
    /\ kstage' = "types"
    /\ IF kdata.key \in TypeStageKeys
       THEN LET updated == [i \in 1..Len(exams_list(kdata)) |->
                               [exams_list(kdata)[i] EXCEPT
                                   !.questions = detect_question_types_batch(@)]]
            IN  /\ kfile' = <<Dumped(kdata, updated)>>
                /\ kreturn' = Accepted(ExamsWithQuestions(exams_list(kdata)))
       ELSE kfile' = <<>> /\ kreturn' = Rejected
    /\ kpc' = "done"
    /\ UNCHANGED <<kdata, kcleaned, notCorpusVars>>

\* the exam dict as process_exam_questions reads it
ExamData(exam) == [present |-> TRUE, cover |-> exam.total_marks_from_cover]

\* calculate_difficulty_from_marks
CalculateDifficultyOfCorpus ==
    /\ kpc = "loaded"
    /\ kstage' = "difficulty"
    /\ IF kdata.key \in {"exams", "questions"}
       THEN LET updated == [i \in 1..Len(exams_list(kdata)) |->
                               LET exam == exams_list(kdata)[i] IN
                               IF exam.questions = <<>> THEN exam
                               ELSE [exam EXCEPT !.questions =
                                        process_exam_questions(exam.questions, ExamData(exam))[1]]]
            IN  /\ kfile' = <<Dumped(kdata, updated)>>
                /\ kreturn' = Accepted(ExamsWithQuestions(exams_list(kdata)))
       ELSE kfile' = <<>> /\ kreturn' = Rejected
    /\ kpc' = "done"
    /\ UNCHANGED <<kdata, kcleaned, notCorpusVars>>

\* "Flatten questions from all exams"
RECURSIVE Flatten(_)
Flatten(exams) == IF exams = <<>> THEN <<>> ELSE Head(exams).questions \o Flatten(Tail(exams))

\* the keys of a question the cleaner reads
RawOf(qs) == [i \in 1..Len(qs) |-> RawQ(qs[i].question_number, qs[i].text, qs[i].question_type)]

\* ExamDataCleaner.clean_dataset on a fresh instance: the cleaned questions
clean_dataset(questions_data) == remove_duplicates(ValidateLoop(questions_data).kept).unique

\* what clean_exam_data hands to clean_dataset
CleanerInput(data) == IF data.key = "exams" THEN Flatten(data.items) ELSE data.items

\* clean_exam_data; cleaned_questions.json is written, the corpus file is not
CleanExamData ==
    /\ kpc = "loaded"
    /\ kstage' = "cleaning"
    /\ IF kdata.key \in {"exams", "questions"} /\ CleanerInput(kdata) # <<>>
       THEN /\ kcleaned' = clean_dataset(RawOf(CleanerInput(kdata)))
            /\ kreturn' = Accepted(IF kdata.key = "exams" THEN Len(kdata.items) ELSE 1)
       ELSE kcleaned' = <<>> /\ kreturn' = Rejected
    /\ kpc' = "done"
    /\ UNCHANGED <<kdata, kfile, notCorpusVars>>

NextCorpus ==
    \/ DetectSubQuestionsInData
    \/ DetectQuestionTypesInData
    \/ CalculateDifficultyOfCorpus
    \/ CleanExamData

SpecCorpus == InitCorpus /\ [][NextCorpus]_vars

\* the units the Cleaner retains for one exam cleaned on its own
RECURSIVE RetainedPerExam(_)
RetainedPerExam(exams) ==
    IF exams = <<>> THEN <<>>
    ELSE clean_dataset(RawOf(Head(exams).questions)) \o RetainedPerExam(Tail(exams))

\* C14: the units the Cleaner retains for the corpus are, exam by exam, the units
\* it retains for that exam alone: no unit is dropped because of another exam
C14_ExamsCleanedIndependently ==
    (kstage = "cleaning" /\ kdata.key = "exams") => kcleaned = RetainedPerExam(kdata.items)

\* C15: a stage given a file of either shape that holds questions does not reject it
C15_BothShapesAccepted ==
    (/\ kpc = "done"
     /\ kdata.key \in {"exams", "questions"}
     /\ CleanerInput(kdata) # <<>>) => ~kreturn.rejected

\* C29: a returned config names a detected language exactly when its exam_type is
\* 'language', and asks for math OCR exactly when its exam_type is 'math'
C29_TypeMatchesFlags ==
    opc = "returned" =>
        /\ (oconfig.detected_language # NoneStr) <=> (oconfig.exam_type = "language")
        /\ (oconfig.needs_math_ocr = TRUE) <=> (oconfig.exam_type = "math")


\* C30: in the stats of process_exam_questions marks_source is 'cover_page'
\* exactly when total_exam_marks is the cover value, 'calculated_sum' exactly
\* when it is the sum of the per-question marks and not the cover value, and
\* null exactly when total_exam_marks is null.
C30_SourceTellsOrigin ==
    Processed =>
        LET total == dstats.total_exam_marks
            fromCover == total # NoneNum /\ HasCover(UsedExamData) /\ total = UsedExamData.cover
        IN /\ (dstats.marks_source = "cover_page") <=> fromCover
           /\ (dstats.marks_source = "calculated_sum") <=>
                 (total # NoneNum /\ ~fromCover /\ total = SummedTotal(dq))
           /\ (dstats.marks_source = NoneStr) <=> (total = NoneNum)


\* C27: after any sequence of clean_dataset calls on one cleaner, the stats
\* account for every input of the latest call: total_questions = final_count
\* + removed_duplicates + removed_too_short + removed_invalid.
C27_ReportAccountsForInputs ==
    cphase = "cleaned" =>
        cstats.total_questions =
            cstats.final_count + cstats.removed_duplicates
                + cstats.removed_too_short + cstats.removed_invalid


\* C23: the question_numbers of the units returned for one document are
\* strictly increasing in document order, so no two units share one.
C23_NumbersStrictlyIncreasing ==
    spc = "returned" =>
        \A i \in 1..Len(squestions) : \A j \in 1..Len(squestions) :
            i < j => squestions[i].question_number < squestions[j].question_number


\* C26: every returned result has success = true exactly when its error is
\* null.
C26_SuccessIffNoError ==
    pc = "returned" => (result.success <=> (result.error = NoneStr))


\* every page of the document reads as nothing but whitespace
AllPagesBlank(pages) ==
    \A i \in 1..Len(pages) : \A k \in 1..Len(pages[i]) : pages[i][k] \in Space

\* the OCR engine read every page of the document
OcrPassCompleted ==
    /\ pc = "returned"
    /\ attempts # <<>>
    /\ attempts[Len(attempts)].method = "ocr"
    /\ attempts[Len(attempts)].outcome \in {"text", "blank"}

\* C21: an OCR pass in which every page yields empty or whitespace-only text
\* returns success = false with the empty-output error, an empty text and no
\* extraction_method.
C21_BlankOcrIsFailure ==
    (OcrPassCompleted /\ AllPagesBlank(env.ocr_pages)) =>
        /\ ~result.success
        /\ result.error = MsgOcrEmpty
        /\ result.text = ""
        /\ result.extraction_method = NoneStr

C21_Witness ==
    /\ OcrPassCompleted
    /\ env.use_ocr
    /\ env.ocr_pages = << <<" ", "\n">>, <<>> >>
    /\ ~result.success
    /\ result.error = MsgOcrEmpty


\* the OCR engine was called on at least one page image
OcrEngineCalled ==
    /\ attempts # <<>>
    /\ attempts[Len(attempts)].method = "ocr"
    /\ attempts[Len(attempts)].outcome \in {"text", "blank"}
    /\ env.ocr_pages # <<>>

\* the course code known for the document: given, or mined from page 1
KnownCourseCode(e) ==
    IF e.course_code # <<>> THEN e.course_code ELSE extract_course_code(e.first_page)

\* the ocr_language of the OCR context selector for that course code
SelectorLanguage(e) ==
    IF e.course_code # <<>> THEN detect_exam_type(e.course_code, <<>>).ocr_language
    ELSE detect_exam_type(KnownCourseCode(e), e.first_page).ocr_language

\* C22: whenever the OCR engine runs and no explicit ocr_language was given,
\* the language passed to it is the selector's ocr_language for the
\* document's course code, and 'eng' when no course code is known, with
\* forced OCR and with fallback OCR alike.
C22_OcrLanguageFromContext ==
    (OcrEngineCalled /\ env.ocr_language = NoneStr) =>
        Lang(ocr_language) =
            IF KnownCourseCode(env) # <<>> THEN SelectorLanguage(env) ELSE "eng"

\* the same for forced OCR only
ForcedOcrLanguageFromContext ==
    (OcrEngineCalled /\ env.ocr_language = NoneStr /\ env.use_ocr) =>
        Lang(ocr_language) =
            IF KnownCourseCode(env) # <<>> THEN SelectorLanguage(env) ELSE "eng"


(***************************************************************************)
(* Per-question marks: extract_question_marks on its own                    *)
(***************************************************************************)
MaxMarkLines == 2   \* lines of the question text

\* lines a question text is made of
MarkLines ==
    {<<"(", "5", " ", "p", "t", "s", ")">>,
     <<"[", "5", " ", "m", "a", "r", "k", "s", "]">>,
     <<"3", " ", "p", "o", "i", "n", "t", "s", ".">>,
     <<"(", "4", ")">>,
     <<"2", " ", "m", "a", "r", "k", "s">>,
     <<"w", "o", "r", "t", "h", " ", "6", " ", "p", "o", "i", "n", "t", "s">>,
     <<"7", " ", "P", "o", "i", "n", "t", "s", " ", "e", "a", "c", "h">>,
     <<"(", "0", ")">>,
     <<"[", "0", " ", "M", "A", "R", "K", "S", "]">>,
     <<"0", " ", "p", "t", "s", ")">>,
     <<"E", "x", "p", "l", "a", "i", "n", " ", "i", "t">>,
     <<"(", "1", "2", "p", "t", ")", " ", "x">>,
     <<"m", "a", "r", "k", "s", " ", "8">>}

InitMarks ==
    /\ mpc = "called"
    /\ \E n \in 0..MaxMarkLines : \E ls \in [1..n -> MarkLines] : mtext = JoinLines(ls)
    /\ mmarks = NoneNum
    /\ IdleNotMarks

ExtractQuestionMarks ==
    /\ mpc = "called"
    /\ mmarks' = extract_question_marks(mtext)
    /\ mpc' = "returned"
    /\ UNCHANGED <<mtext, notMarksVars>>

NextMarks == ExtractQuestionMarks

SpecMarks == InitMarks /\ [][NextMarks]_vars

\* the patterns whose first match in the text is a positive number
PositivePatterns(text) ==
    {p \in 1..7 : FirstMarksMatch(p, text) # <<>> /\ IntOf(FirstMarksMatch(p, text)) > 0}

\* C24: the mark patterns are evaluated in their fixed order and the value of
\* the first one whose match is a positive number is returned; the result is
\* null when no pattern yields a positive value and is never zero or
\* negative; '[5 marks]' yields 5.
C24_FirstPositiveMatchWins ==
    mpc = "returned" =>
        /\ IF PositivePatterns(mtext) = {} THEN mmarks = NoneNum
           ELSE mmarks = Some(IntOf(FirstMarksMatch(MinOf(PositivePatterns(mtext)), mtext)))
        /\ mmarks # NoneNum => mmarks[1] > 0
        /\ mtext = <<"[", "5", " ", "m", "a", "r", "k", "s", "]">> => mmarks = Some(5)

C24_Witness ==
    /\ mpc = "returned"
    /\ mtext = JoinLines(<< <<"[", "0", " ", "M", "A", "R", "K", "S", "]">>, <<"2", " ", "m", "a", "r", "k", "s">> >>)
    /\ FirstMarksMatch(2, mtext) = <<"0">>
    /\ mmarks = Some(2)


(***************************************************************************)
(* Cover page parser: exam date                                            *)
(*                                                                         *)
(* extract_date is modelled up to the fields year, month and day of the    *)
(* record it returns; relevance_score depends on the clock and is left out.*)
(***************************************************************************)
MaxDateLines == 2   \* lines of the cover page text

\* CoverPageParser.months, lower-cased names in dictionary order
months ==
    <<<<"j", "a", "n", "u", "a", "r", "y">>,
      <<"f", "e", "b", "r", "u", "a", "r", "y">>,
      <<"m", "a", "r", "c", "h">>,
      <<"a", "p", "r", "i", "l">>,
      <<"m", "a", "y">>,
      <<"j", "u", "n", "e">>,
      <<"j", "u", "l", "y">>,
      <<"a", "u", "g", "u", "s", "t">>,
      <<"s", "e", "p", "t", "e", "m", "b", "e", "r">>,
      <<"o", "c", "t", "o", "b", "e", "r">>,
      <<"n", "o", "v", "e", "m", "b", "e", "r">>,
      <<"d", "e", "c", "e", "m", "b", "e", "r">>>>

seasons == <<<<"f", "a", "l", "l">>, <<"s", "p", "r", "i", "n", "g">>, <<"s", "u", "m", "m", "e", "r">>, <<"w", "i", "n", "t", "e", "r">>>>

\* season_months of _parse_date
season_months == <<9, 1, 6, 12>>

\* index of the name of names that occurs at position i, 0 when none does
NameAt(names, s, i) ==
    IF \E m \in 1..Len(names) : LitAt(s, i, names[m])
    THEN CHOOSE m \in 1..Len(names) : LitAt(s, i, names[m]) ELSE 0

\* `\d{1,2}[-/]\d{1,2}[-/]\d{2,4}` at i: the span matched, <<>> when none
NumericDateAt(s, i) ==
    LET a == Run(s, i, Digits)
        b == Run(s, i + a + 1, Digits)
        c == Run(s, i + a + b + 2, Digits)
    IN  IF a \in {1, 2} /\ At(s, i + a) \in {"-", "/"} /\ b \in {1, 2}
           /\ At(s, i + a + 1 + b) \in {"-", "/"} /\ c >= 2
        THEN <<i + 0, i + a + b + 1 + (IF c > 4 THEN 4 ELSE c)>> ELSE <<>>

\* `Date\s*:?\s*(...)` at i
DateLabelAt(s, i) ==
    LET p1 == i + 4 + Run(s, i + 4, Space)
        p2 == IF At(s, p1) = ":" THEN p1 + 1 ELSE p1
        p3 == p2 + Run(s, p2, Space)
    IN  IF LitAt(s, i, <<"d", "a", "t", "e">>) THEN NumericDateAt(s, p3) ELSE <<>>

\* `(?:EXAMINATION\s+)?DATE\s*:?\s*(...)` at i
ExaminationDateAt(s, i) ==
    LET w == Run(s, i + 11, Space)
    IN  IF LitAt(s, i, <<"e", "x", "a", "m", "i", "n", "a", "t", "i", "o", "n">>) /\ w >= 1
           /\ DateLabelAt(s, i + 11 + w) # <<>>
        THEN DateLabelAt(s, i + 11 + w)
        ELSE DateLabelAt(s, i)

\* `(\d{1,2}\s+Month\s+\d{2,4})` at i
DayMonthYearAt(s, i) ==
    LET a == Run(s, i, Digits)
        w1 == Run(s, i + a, Space)
        m == NameAt(months, s, i + a + w1)
        p == i + a + w1 + (IF m = 0 THEN 0 ELSE Len(months[m]))
        w2 == Run(s, p, Space)
        c == Run(s, p + w2, Digits)
    IN  IF a \in {1, 2} /\ w1 >= 1 /\ m # 0 /\ w2 >= 1 /\ c >= 2
        THEN <<i, p + w2 + (IF c > 4 THEN 4 ELSE c) - 1>> ELSE <<>>

\* `(Month\s+\d{1,2},?\s+\d{2,4})` at i
MonthDayYearAt(s, i) ==
    LET m == NameAt(months, s, i)
        p == i + (IF m = 0 THEN 0 ELSE Len(months[m]))
        w1 == Run(s, p, Space)
        a == Run(s, p + w1, Digits)
        q == IF At(s, p + w1 + a) = "," THEN p + w1 + a + 1 ELSE p + w1 + a
        w2 == Run(s, q, Space)
        c == Run(s, q + w2, Digits)
    IN  IF m # 0 /\ w1 >= 1 /\ a \in {1, 2} /\ w2 >= 1 /\ c >= 2
        THEN <<i, q + w2 + (IF c > 4 THEN 4 ELSE c) - 1>> ELSE <<>>

\* `(Fall|Spring|Summer|Winter)\s+(\d{4})` at i
SeasonYearAt(s, i) ==
    LET m == NameAt(seasons, s, i)
        p == i + (IF m = 0 THEN 0 ELSE Len(seasons[m]))
        w == Run(s, p, Space)
    IN  IF m # 0 /\ w >= 1 /\ Run(s, p + w, Digits) >= 4 THEN <<i, p + w + 3>> ELSE <<>>

\* CoverPageParser.date_patterns, matched with re.IGNORECASE
date_patterns == <<1, 2, 3, 4, 5, 6>>

DatePatternAt(pattern, s, i) ==
    CASE pattern = 1 -> ExaminationDateAt(s, i)
      [] pattern = 2 -> DateLabelAt(s, i)
      [] pattern = 3 -> DayMonthYearAt(s, i)
      [] pattern = 4 -> MonthDayYearAt(s, i)
      [] pattern = 5 -> SeasonYearAt(s, i)
      [] pattern = 6 -> IF Run(s, i, Digits) >= 4 THEN <<i, i + 3>> ELSE <<>>

\* what re.findall returns first for the pattern: the text of the group of
\* the leftmost match, <<>> without a match
FirstDateMatch(pattern, text) ==
    LET s == Lower(text)
        I == {i \in 1..Len(s) : DatePatternAt(pattern, s, i) # <<>>}
    IN  IF I = {} THEN <<>>
        ELSE SubSeq(text, DatePatternAt(pattern, s, MinOf(I))[1], DatePatternAt(pattern, s, MinOf(I))[2])

\* the pattern has two groups: findall returns tuples, not strings
TupleMatches(pattern) == pattern = 5

LeapYear(y) == (y % 4 = 0 /\ y % 100 # 0) \/ y % 400 = 0

DaysIn(y, m) ==
    IF m = 2 THEN (IF LeapYear(y) THEN 29 ELSE 28)
    ELSE IF m \in {4, 6, 9, 11} THEN 30 ELSE 31

\* datetime(y, m, d) is a date
ValidDate(y, m, d) == y >= 1 /\ m \in 1..12 /\ d >= 1 /\ d <= DaysIn(y, m)

\* "Last resort: just year": re.search(r'\b(19|20)\d{2}\b', date_str)
YearOnly(date_str) ==
    LET I == {i \in 1..Len(date_str) :
                 /\ Run(date_str, i, Digits) = 4
                 /\ At(date_str, i - 1) \notin WordChar
                 /\ SubSeq(date_str, i, i + 1) \in {<<"1", "9">>, <<"2", "0">>}}
    IN  IF I = {} THEN [raised |-> FALSE, date |-> <<>>]
        ELSE [raised |-> FALSE, date |-> <<IntOf(SubSeq(date_str, MinOf(I), MinOf(I) + 3)), 1, 1>>]

\* _parse_date on a string of the form d[-/]d[-/]y: strptime with
\* '%m/%d/%Y', '%d/%m/%Y' (or '-'), then the year alone
ParseNumericDate(date_str) ==
    LET a == Run(date_str, 1, Digits)
        b == Run(date_str, a + 2, Digits)
        x == IntOf(SubSeq(date_str, 1, a))
        y == IntOf(SubSeq(date_str, a + 2, a + 1 + b))
        ys == SubSeq(date_str, a + b + 3, Len(date_str))
        sameSep == date_str[a + 1] = date_str[a + b + 2]
    IN  IF sameSep /\ Len(ys) = 4 /\ ValidDate(IntOf(ys), x, y)
            THEN [raised |-> FALSE, date |-> <<IntOf(ys), x, y>>]
        ELSE IF sameSep /\ Len(ys) = 4 /\ ValidDate(IntOf(ys), y, x)
            THEN [raised |-> FALSE, date |-> <<IntOf(ys), y, x>>]
        ELSE YearOnly(date_str)

\* _parse_date on a string holding a month name, a day of one or two digits
\* and a year: strptime with '%d %B %Y' / '%B %d, %Y' / '%B %d %Y', then
\* "Try parsing month name formats"; datetime(0, month, 1) raises ValueError
ParseMonthDate(m, day, ys) ==
    IF Len(ys) = 4 /\ ValidDate(IntOf(ys), m, day)
        THEN [raised |-> FALSE, date |-> <<IntOf(ys), m, day>>]
    ELSE IF Len(ys) = 4 /\ IntOf(ys) >= 1
        THEN [raised |-> FALSE, date |-> <<IntOf(ys), m, 1>>]
    ELSE IF Len(ys) = 4
        THEN [raised |-> TRUE, date |-> <<>>]
    ELSE [raised |-> FALSE, date |-> <<>>]

\* CoverPageParser._parse_date on the string a pattern captured
_parse_date(pattern, date_str) ==
    LET s == Lower(date_str) IN
    CASE pattern \in {1, 2} -> ParseNumericDate(date_str)
      [] pattern = 3 ->
            LET a == Run(s, 1, Digits)
                w1 == Run(s, a + 1, Space)
                m == NameAt(months, s, a + w1 + 1)
                p == a + w1 + 1 + Len(months[m])
            IN  ParseMonthDate(m, IntOf(SubSeq(s, 1, a)), SubSeq(s, p + Run(s, p, Space), Len(s)))
      [] pattern = 4 ->
            LET m == NameAt(months, s, 1)
                p == 1 + Len(months[m]) + Run(s, 1 + Len(months[m]), Space)
                a == Run(s, p, Digits)
                q == IF At(s, p + a) = "," THEN p + a + 1 ELSE p + a
            IN  ParseMonthDate(m, IntOf(SubSeq(s, p, p + a - 1)), SubSeq(s, q + Run(s, q, Space), Len(s)))
      [] pattern = 6 -> YearOnly(date_str)

\* the loop of extract_date over date_patterns from pattern `from` on;
\* ' '.join(matches) on a list of tuples raises TypeError
RECURSIVE DateFrom(_, _)
DateFrom(text, from) ==
    IF from > Len(date_patterns) THEN [raised |-> FALSE, date |-> <<>>]
    ELSE LET pattern == date_patterns[from]
             m == FirstDateMatch(pattern, text)
         IN  IF m = <<>> THEN DateFrom(text, from + 1)
             ELSE IF TupleMatches(pattern) THEN [raised |-> TRUE, date |-> <<>>]
             ELSE IF _parse_date(pattern, m).raised \/ _parse_date(pattern, m).date # <<>>
                  THEN _parse_date(pattern, m)
             ELSE DateFrom(text, from + 1)

\* CoverPageParser.extract_date
extract_date(text) ==
    IF text = <<>> THEN [raised |-> FALSE, date |-> <<>>] ELSE DateFrom(text, 1)

\* lines of a cover page
DateLines ==
    {<<"F", "i", "n", "a", "l", " ", "E", "x", "a", "m">>,
     <<"F", "a", "l", "l", " ", "2", "0", "2", "3">>,
     <<"w", "i", "n", "t", "e", "r", " ", "1", "9", "9", "9">>,
     <<"S", "u", "m", "m", "e", "r", " ", " ", "2", "0", "2", "4">>,
     <<"S", "p", "r", "i", "n", "g", " ", "2", "0">>,
     <<"E", "x", "a", "m", " ", "2", "0", "2", "1">>,
     <<"R", "o", "o", "m", " ", "1", "8", "5", "0">>,
     <<"D", "a", "t", "e", ":", " ", "1", "2", "/", "0", "5", "/", "2", "0", "2", "3">>,
     <<"D", "A", "T", "E", " ", "3", "1", "/", "0", "2", "/", "2", "0", "2", "3">>,
     <<"D", "a", "t", "e", ":", " ", "5", "/", "6", "/", "0", "7">>,
     <<"5", " ", "M", "a", "r", "c", "h", " ", "2", "0", "2", "1">>,
     <<"M", "a", "r", "c", "h", " ", "5", ",", " ", "2", "0", "2", "1">>,
     <<"3", "1", " ", "J", "u", "n", "e", " ", "2", "0", "2", "0">>,
     <<"9", " ", "M", "a", "y", " ", "2", "1">>}

InitDate ==
    /\ dtpc = "called"
    /\ \E n \in 0..MaxDateLines : \E ls \in [1..n -> DateLines] : dttext = JoinLines(ls)
    /\ dtdate = <<>>
    /\ IdleNotDate

ExtractDate ==
    /\ dtpc = "called"
    /\ dtdate' = extract_date(dttext).date
    /\ dtpc' = IF extract_date(dttext).raised THEN "raised" ELSE "returned"
    /\ UNCHANGED <<dttext, notDateVars>>

NextDate == ExtractDate

SpecDate == InitDate /\ [][NextDate]_vars

\* the first season + year of the text as <<year, month>>, <<>> without one
SeasonAndYear(text) ==
    LET s == Lower(text)
        I == {i \in 1..Len(s) : SeasonYearAt(s, i) # <<>>}
    IN  IF I = {} THEN <<>>
        ELSE <<IntOf(SubSeq(s, SeasonYearAt(s, MinOf(I))[2] - 3, SeasonYearAt(s, MinOf(I))[2])),
               season_months[NameAt(seasons, s, MinOf(I))]>>

\* a concrete-format or month-name date occurs in the text
ConcreteDate(text) == \E p \in 1..4 : FirstDateMatch(p, text) # <<>>

\* C25: extract_date never raises, and for a text in which no concrete-format
\* or month-name date matches but a season + year does it returns a record
\* with that year and the month of the season.
C25_SeasonYearGivesSeasonMonth ==
    /\ dtpc # "raised"
    /\ (dtpc = "returned" /\ ~ConcreteDate(dttext) /\ SeasonAndYear(dttext) # <<>>) =>
          /\ dtdate # <<>>
          /\ dtdate[1] = SeasonAndYear(dttext)[1]
          /\ dtdate[2] = SeasonAndYear(dttext)[2]


(***************************************************************************)
(* Repeated batch runs: extract_all_exams called again and again over the  *)
(* same directory and output file                                          *)
(***************************************************************************)
MaxRunDocs == 2   \* PDFs put into the to-process folder
MaxRuns == 2      \* extract_all_exams calls

\* the PDFs of the folder
RunDocs ==
    { Pdf("text", "text", "text", FALSE, 1),
      Pdf("empty", "empty", "text", FALSE, 1),
      Pdf("raise_corrupt", "raise_corrupt", "raise", FALSE, 0),
      Pdf("empty", "empty", "blank", FALSE, 0) }

InitRuns ==
    /\ rpc = "ready"
    /\ \E ocr \in BOOLEAN, pl \in BOOLEAN, mu \in BOOLEAN, imp \in OcrImports :
          renv = [exists |-> TRUE, use_ocr |-> ocr, pdfplumber |-> pl, pymupdf |-> mu,
                  pytesseract |-> imp.pytesseract, pdf2image |-> imp.pdf2image]
    /\ \E n \in 1..MaxRunDocs :
          /\ rdocs \in [1..n -> RunDocs]
          /\ to_process = 1..n
    /\ processed = {}
    /\ output_file = <<>>
    /\ rfiles = <<>>
    /\ rnext = 0
    /\ rresults = <<>>
    /\ rruns = 0
    /\ IdleNotRuns

\* extract_all_exams up to the for-loop: `pdf_files = list(glob("*.pdf"))` in
\* the order the file system lists them, `return {}` when there is none,
\* otherwise a fresh results dict
StartRun ==
    /\ rpc = "ready"
    /\ rruns < MaxRuns
    /\ rruns' = rruns + 1
    /\ IF to_process = {}
       THEN UNCHANGED <<rpc, rfiles, rnext, rresults>>
       ELSE /\ \E fs \in [1..Cardinality(to_process) -> to_process] :
                  /\ \A i, j \in DOMAIN fs : fs[i] = fs[j] => i = j
                  /\ rfiles' = fs
            /\ rnext' = 1
            /\ rresults' = <<>>
            /\ rpc' = "extracting"
    /\ UNCHANGED <<renv, rdocs, to_process, processed, output_file, notRunsVars>>

\* one iteration of `for pdf_path in pdf_files`: the entry is appended and a
\* successfully extracted PDF is renamed into the processed folder (a failing
\* rename is caught and leaves the file where it is); an exception of
\* extract_text_from_pdf is not caught and ends the call before "Save results"
RunExtractNext ==
    /\ rpc = "extracting"
    /\ rnext <= Len(rfiles)
    /\ LET f == rfiles[rnext]
           x == extract_text_from_pdf(renv, rdocs[f])
       IN IF x.raised
          THEN /\ rpc' = "ready"
               /\ UNCHANGED <<rnext, rresults, to_process, processed>>
          ELSE /\ rpc' = rpc
               /\ rnext' = rnext + 1
               /\ rresults' = Append(rresults, [filename |-> f, success |-> x.result.success])
               /\ IF x.result.success
                  THEN \E moved \in BOOLEAN :
                          IF moved
                          THEN /\ to_process' = to_process \ {f}
                               /\ processed' = processed \cup {f}
                          ELSE UNCHANGED <<to_process, processed>>
                  ELSE UNCHANGED <<to_process, processed>>
    /\ UNCHANGED <<renv, rdocs, output_file, rfiles, rruns, notRunsVars>>

\* "Save results": the output file is opened with 'w' and the results of this
\* call are dumped into it
RunSave ==
    /\ rpc = "extracting"
    /\ rnext > Len(rfiles)
    /\ output_file' = rresults
    /\ rpc' = "ready"
    /\ UNCHANGED <<renv, rdocs, to_process, processed, rfiles, rnext, rresults, rruns, notRunsVars>>

NextRuns == StartRun \/ RunExtractNext \/ RunSave

SpecRuns == InitRuns /\ [][NextRuns]_vars

\* the extraction of the PDF named f succeeds
ExtractionSucceeds(f) ==
    /\ ~extract_text_from_pdf(renv, rdocs[f]).raised
    /\ extract_text_from_pdf(renv, rdocs[f]).result.success

\* the output file holds the extraction record of the PDF named f
Recorded(f) ==
    \E k \in 1..Len(output_file) : output_file[k].filename = f /\ output_file[k].success

\* C28: after any sequence of extract_all_exams runs a PDF is in the processed
\* folder only if its extraction succeeded, and every PDF in the processed
\* folder has its extraction record in the output file.
C28_ProcessedPdfsAreRecorded ==
    (rpc = "ready" /\ rruns >= 1) =>
        \A f \in processed : ExtractionSucceeds(f) /\ Recorded(f)

\* the first half alone: only successfully extracted PDFs are moved
OnlySuccessfulPdfsMoved == \A f \in processed : ExtractionSucceeds(f)

\* the second half after a first run that ran to its end
RecordedAfterFirstRun ==
    (rpc = "ready" /\ rruns = 1 /\ output_file # <<>>) => \A f \in processed : Recorded(f)

====
